---- MODULE Spec2Model ----
(***************************************************************************)
(* Model of the slot monitor of the WB-Parser repository: the Slot Matcher *)
(* (monitor.py, _find_suitable_slots_with_coefficients), the Change        *)
(* Detector (_notify_about_found_slots), the monitoring cycle              *)
(* (_check_task_group) and the adaptive cycle scheduler                    *)
(* (start_monitoring, _calculate_dynamic_pause).                           *)
(*                                                                         *)
(* Calendar dates are day numbers.  Wall-clock time is counted in          *)
(* milliseconds; the float division of the pause function is modelled by   *)
(* integer division on milliseconds.                                       *)
(***************************************************************************)
EXTENDS Integers, Sequences, FiniteSets, TLC

VARIABLES
    today,              \* datetime.now().date() / date.today()
    task,               \* matcher input: the MonitoringTask
    slot,               \* matcher input: the SlotInfo of one product
    coefficients,       \* matcher input: list of AcceptanceCoefficient
    suitable_slots,     \* matcher output: list of FoundSlot
    m_pc,               \* "off" | "input" | "done": position of the matcher call
    current_active_slots,  \* SlotMonitor.current_active_slots (list of dicts)
    active_slots_file,  \* the file current_active_slots.json
    notified_slots,     \* SlotMonitor.notified_slots (set of memo keys)
    stats,              \* SlotMonitor.stats
    audit_log,          \* records appended to found_slots/slots_<day>.json
    sent,               \* send_slot_notification calls of the last run or cycle
    runs,               \* number of Change Detector runs made so far
    last_found,         \* found_slots argument of the last run
    prev_found,         \* found_slots argument of the run before it
    prev_active,        \* current_active_slots when the last run started
    last_changed,       \* result of _slots_changed in the last run
    raised,             \* the calls of sent in which send_slot_notification raised
    tasks,              \* rows of the sheet: list of MonitoringTask
    cycles,             \* number of monitoring cycles made so far
    last_vendor,        \* vendor responses of the last cycle
    same_vendor,        \* the last cycle saw the same responses as the one before
    vanished,           \* keys that were in the snapshot when a cycle did not
                        \* find them, and that no cycle has found since
    reappeared,         \* the keys of vanished that the last cycle found again
    phase,              \* what the loop of start_monitoring is doing
    prev_phase,         \* what it was doing before that
    cy_step,            \* position inside _perform_monitoring_cycle
    groups_left,        \* groups of the cycle not yet checked
    outstanding,        \* vendor calls issued and not yet returned or failed
    loop_cycles,        \* cycles the loop has completed
    group_results,      \* how the groups of the current cycle ended, in order
    disk,               \* current_active_slots.json as it is on disk
    committed,          \* the last snapshot written completely (0: none)
    writer_pc,          \* the monitoring task inside _save_active_slots
    writing,            \* the snapshot that _save_active_slots is writing
    reader_pc,          \* the bot task inside _handle_subscribe
    reads,              \* what get_current_active_slots returned, in order
    subscribed,         \* users.subscribed of the one user of the model
    user_notifications, \* slot ids recorded for the user in user_notifications
    delivered,          \* messages the user received, counted per slot id
    file_slots,         \* slot ids in current_active_slots.json
    push_pc,            \* the monitoring task inside send_slot_notification
    push_slot,          \* the slot it is sending
    pull_pc,            \* the bot task inside _handle_subscribe
    unseen_slots,       \* unseen_slots of send_missed_notifications, still to do
    enable_adaptive_monitoring,  \* config.enable_adaptive_monitoring: "unset" | "on" | "off"
    now,                \* time.time(), in milliseconds
    current_minute_start,      \* SlotMonitor.current_minute_start, NoWindow for None
    cycles_in_current_minute,  \* SlotMonitor.cycles_in_current_minute
    pc,                 \* position of start_monitoring
    cycle_duration,     \* duration of the cycle that just ended
    pause_duration,     \* the pause about to be slept
    durations,          \* durations of the cycles run so far
    pauses,             \* pauses computed after them (30 s when the iteration failed)
    rl_now,             \* time.time() seen by the rate limiter, in milliseconds
    last_request_time,  \* SimpleRateLimiter.last_request_time
    rl_calls,           \* the calls made on the client so far, in order
    outcomes,           \* how each cycle run so far ended inside _perform_monitoring_cycle
    sup_pc,             \* position of WBSlotsSystem.start_system
    bot_task,           \* state of the task "telegram_bot"
    running,            \* WBSlotsSystem.running
    stop_requested,     \* stop_system has cancelled the tasks
    cancelled_after,    \* where the monitoring task was when it was cancelled
    entry_point,        \* the script the program was started from
    config,             \* config: which of the required fields are filled in
    boot_pc,            \* position of the start-up: "off" | "launched" |
                        \* "start_monitoring" | "loop" | "exited"
    boot_cycles         \* cycles the loop has run since this start-up

matcherVars == <<today, task, slot, coefficients, suitable_slots, m_pc>>

detectorVars == <<current_active_slots, active_slots_file, notified_slots,
                  stats, audit_log, sent, runs, last_found, prev_found,
                  prev_active, last_changed, raised>>

cycleVars == <<tasks, cycles, last_vendor, same_vendor, vanished, reappeared>>

schedVars == <<enable_adaptive_monitoring, now, current_minute_start,
               cycles_in_current_minute, pc, cycle_duration, pause_duration,
               durations, pauses, outcomes>>

limiterVars == <<rl_now, last_request_time, rl_calls>>

systemVars == <<sup_pc, bot_task, running, stop_requested, cancelled_after>>

startupVars == <<entry_point, config, boot_pc, boot_cycles>>

stepVars == <<phase, prev_phase, cy_step, groups_left, outstanding,
              loop_cycles, group_results>>

fileVars == <<disk, committed, writer_pc, writing, reader_pc, reads>>

deliveryVars == <<subscribed, user_notifications, delivered, file_slots,
                  push_pc, push_slot, pull_pc, unseen_slots>>

vars == <<today, task, slot, coefficients, suitable_slots, m_pc,
          current_active_slots, active_slots_file, notified_slots,
          stats, audit_log, sent, runs, last_found, prev_found,
          prev_active, last_changed, raised, tasks, cycles, last_vendor,
          same_vendor, enable_adaptive_monitoring, now, current_minute_start,
          cycles_in_current_minute, pc, cycle_duration, pause_duration,
          durations, pauses, rl_now, last_request_time, rl_calls,
          outcomes, sup_pc, bot_task, running, stop_requested,
          cancelled_after, entry_point, config, boot_pc, boot_cycles,
          vanished, reappeared, phase, prev_phase, cy_step, groups_left,
          outstanding, loop_cycles, group_results, disk, committed,
          writer_pc, writing, reader_pc, reads, subscribed,
          user_notifications, delivered, file_slots, push_pc, push_slot,
          pull_pc, unseen_slots>>

(***************************************************************************)
(* Bounds of the model.                                                    *)
(***************************************************************************)
MaxDay == 3
MaxCoefs == 2
MaxFound == 2
MaxRuns == 2
MaxCycles == 3
MaxCycleCoefs == 2
MaxSchedCycles == 8
MaxCalls == 3
MaxLoopCycles == 3
MaxBootCycles == 2
MaxStepCycles == 3
MaxGroups == 3
MaxWrites == 3
MaxReads == 2

Days == 1..MaxDay
Todays == {1, 2}

(***************************************************************************)
(* Small helpers.                                                          *)
(***************************************************************************)
Range(s) == {s[i] : i \in DOMAIN s}

Max2(a, b) == IF a >= b THEN a ELSE b

SeqsUpTo(S, n) == UNION {[1..k -> S] : k \in 0..n}

(***************************************************************************)
(* wb_api.py: AcceptanceCoefficient                                        *)
(***************************************************************************)
BoxTypeName(id) ==
    CASE id = 1 -> "box"
      [] id = 2 -> "monopallet"
      [] id = 6 -> "supersafe"
      [] OTHER  -> "qr"

WarehouseName(wid) == IF wid = 100 THEN "wh100" ELSE "wh200"

Coef(d, c, wid, au, bt) ==
    [date |-> d, coefficient |-> c, warehouse_id |-> wid,
     warehouse_name |-> WarehouseName(wid), allow_unload |-> au,
     box_type_name |-> BoxTypeName(bt), box_type_id |-> bt]

\* sheets_parser.py: MonitoringTask
MkTask(bc, aw, mc, df, dt) ==
    [barcode |-> bc, quantity |-> 1, allowed_warehouses |-> aw,
     max_coefficient |-> mc, date_from |-> df, date_to |-> dt,
     is_active |-> TRUE]

is_slot_available_leq1(e) == e.coefficient <= 1 /\ e.allow_unload

is_slot_available(e) ==
    (e.coefficient = 0 \/ e.coefficient = 1) /\ e.allow_unload

(***************************************************************************)
(* monitor.py: FoundSlot                                                   *)
(***************************************************************************)
is_really_available(f) ==
    (f.coefficient = 0 \/ f.coefficient = 1) /\ f.allow_unload

matches_criteria(f) ==
    IF f.coefficient > f.monitoring_task.max_coefficient THEN FALSE
    ELSE IF f.monitoring_task.allowed_warehouses # <<>>
            /\ f.warehouse_id \notin Range(f.monitoring_task.allowed_warehouses)
         THEN FALSE
    ELSE IF ~(f.monitoring_task.date_from <= f.date
              /\ f.date <= f.monitoring_task.date_to)
         THEN FALSE
    ELSE TRUE

(***************************************************************************)
(* monitor.py: _check_task_group, the coefficient index.  A later entry    *)
(* of the list overwrites an earlier one with the same key.                *)
(***************************************************************************)
CoefKey(e) == <<e.warehouse_id, e.date, e.box_type_id>>

coef_index(coefs) ==
    [k \in {CoefKey(coefs[i]) : i \in DOMAIN coefs} |->
        LET last == CHOOSE i \in DOMAIN coefs :
                        /\ CoefKey(coefs[i]) = k
                        /\ \A j \in DOMAIN coefs :
                               CoefKey(coefs[j]) = k => j <= i
        IN coefs[last]]

(***************************************************************************)
(* monitor.py: _find_suitable_slots_with_coefficients.  Three nested       *)
(* loops: warehouses of the SlotInfo, days from max(date_from, today) to   *)
(* date_to, box types 1, 2, 6.                                             *)
(***************************************************************************)
BoxTypeIds == <<1, 2, 6>>

MakeFoundSlot(s, t, wid, coef, at) ==
    [barcode |-> s.barcode, warehouse_id |-> wid,
     warehouse_name |-> coef.warehouse_name,
     coefficient |-> coef.coefficient,
     box_type_name |-> coef.box_type_name,
     date |-> coef.date, allow_unload |-> coef.allow_unload,
     found_at |-> at, monitoring_task |-> t]

SlotCheck(t, coef, check_date) ==
    /\ is_slot_available(coef)
    /\ coef.coefficient <= t.max_coefficient
    /\ check_date >= t.date_from /\ check_date <= t.date_to

RECURSIVE BoxLoop(_, _, _, _, _, _, _)
BoxLoop(s, t, idx, wid, check_date, b, at) ==
    IF b > Len(BoxTypeIds) THEN <<>>
    ELSE LET coef_key == <<wid, check_date, BoxTypeIds[b]>>
             here == IF coef_key \in DOMAIN idx
                        /\ SlotCheck(t, idx[coef_key], check_date)
                     THEN <<MakeFoundSlot(s, t, wid, idx[coef_key], at)>>
                     ELSE <<>>
         IN here \o BoxLoop(s, t, idx, wid, check_date, b + 1, at)

RECURSIVE DateLoop(_, _, _, _, _, _)
DateLoop(s, t, idx, wid, check_date, at) ==
    IF check_date > t.date_to THEN <<>>
    ELSE BoxLoop(s, t, idx, wid, check_date, 1, at)
         \o DateLoop(s, t, idx, wid, check_date + 1, at)

FirstDate_nofloor(t, cur) == t.date_from

FirstDate(t, cur) == Max2(t.date_from, cur)

WarehouseAllowed_any(t, wid) == TRUE

WarehouseAllowed(t, wid) ==
    ~(t.allowed_warehouses # <<>> /\ wid \notin Range(t.allowed_warehouses))

RECURSIVE WarehouseLoop(_, _, _, _, _, _)
WarehouseLoop(s, t, idx, cur, w, at) ==
    IF w > Len(s.warehouses) THEN <<>>
    ELSE LET wid == s.warehouses[w]
             here == IF ~WarehouseAllowed(t, wid) THEN <<>>
                     ELSE DateLoop(s, t, idx, wid, FirstDate(t, cur), at)
         IN here \o WarehouseLoop(s, t, idx, cur, w + 1, at)

find_suitable_slots_with_coefficients(s, t, idx, cur, at) ==
    WarehouseLoop(s, t, idx, cur, 1, at)

(***************************************************************************)
(* monitor.py: FoundSlot.to_dict and the keys built from the dicts.        *)
(***************************************************************************)
to_dict(f) ==
    [barcode |-> f.barcode, warehouse_id |-> f.warehouse_id,
     warehouse_name |-> f.warehouse_name, coefficient |-> f.coefficient,
     box_type_name |-> f.box_type_name, date |-> f.date,
     allow_unload |-> f.allow_unload, found_at |-> f.found_at,
     is_available |-> is_really_available(f),
     matches_criteria |-> matches_criteria(f),
     task |-> f.monitoring_task]

ToDicts(found) == [i \in DOMAIN found |-> to_dict(found[i])]

\* f"{barcode}_{warehouse_id}_{date}_{box_type_name}_{coefficient}"
SlotKey_withFoundAt(d) ==
    <<d.barcode, d.warehouse_id, d.date, d.box_type_name, d.coefficient,
      d.found_at>>

SlotKey(d) ==
    <<d.barcode, d.warehouse_id, d.date, d.box_type_name, d.coefficient>>

KeySet_without_date(dicts) ==
    {<<dicts[i].barcode, dicts[i].warehouse_id, 0, dicts[i].box_type_name,
       dicts[i].coefficient>> : i \in DOMAIN dicts}

KeySet(dicts) == {SlotKey(dicts[i]) : i \in DOMAIN dicts}

\* f"{barcode}_{warehouse_id}_{date.date()}_{box_type_name}"
MemoKey(f) == <<f.barcode, f.warehouse_id, f.date, f.box_type_name>>

(***************************************************************************)
(* monitor.py: _slots_changed, _get_new_slots                              *)
(***************************************************************************)
slots_changed_wholeRecords(current, new_slots) == current # new_slots

slots_changed(current, new_slots) ==
    IF Len(new_slots) # Len(current) THEN TRUE
    ELSE KeySet(current) # KeySet(new_slots)

get_new_slots_all(current, new_slots) == new_slots

get_new_slots(current, new_slots) ==
    IF current = <<>> THEN new_slots
    ELSE SelectSeq(new_slots, LAMBDA d : SlotKey(d) \notin KeySet(current))

(***************************************************************************)
(* monitor.py: _save_active_slots.  The write either succeeds and leaves   *)
(* the new list in the file, or fails; the failure is swallowed.  io_ok    *)
(* tells whether the disk takes writes during the run: it governs this     *)
(* write and the writes of _save_found_slot alike.                         *)
(***************************************************************************)
FileWith(slots) == [exists |-> TRUE, data |-> slots]

AbsentFile == [exists |-> FALSE, data |-> <<>>]

save_active_slots_append(file, slots, io_ok) ==
    IF io_ok THEN FileWith(file.data \o slots) ELSE file

save_active_slots(file, slots, io_ok) ==
    IF io_ok THEN FileWith(slots) ELSE file

(***************************************************************************)
(* monitor.py: _notify_about_found_slots.  D is the state of the monitor   *)
(* the handler reads and writes; the result is that state afterwards.      *)
(***************************************************************************)
\* monitor.py: _save_found_slot.  The record is appended to the file of the
\* day, or the write fails and the failure is swallowed.
save_found_slot(audit, rec, io_ok) ==
    IF io_ok THEN Append(audit, rec) ELSE audit

RECURSIVE UpdateStatistics(_, _, _, _)
UpdateStatistics(D, found, i, io_ok) ==
    IF i > Len(found) THEN D
    ELSE LET slot_key == MemoKey(found[i]) IN
         IF slot_key \notin D.notified
         THEN UpdateStatistics(
                  [D EXCEPT !.notified = @ \cup {slot_key},
                            !.slots_found = @ + 1,
                            !.audit = save_found_slot(@, to_dict(found[i]),
                                                      io_ok)],
                  found, i + 1, io_ok)
         ELSE UpdateStatistics(D, found, i + 1, io_ok)

\* the same with the snapshot replaced whether or not the slots changed
notify_about_found_slots_always_replace(D, found, io_ok) ==
    IF found = <<>> THEN D
    ELSE LET new_slots_data == ToDicts(found)
             changed == slots_changed(D.active, new_slots_data)
             new_only_slots == get_new_slots(D.active, new_slots_data)
             D1 == [D EXCEPT
                      !.active = new_slots_data,
                      !.file = save_active_slots(@, new_slots_data, io_ok),
                      !.sent = IF changed THEN @ \o new_only_slots ELSE @]
         IN UpdateStatistics(D1, found, 1, io_ok)

notify_about_found_slots(D, found, io_ok) ==
    IF found = <<>> THEN D
    ELSE LET new_slots_data == ToDicts(found)
             changed == slots_changed(D.active, new_slots_data)
             new_only_slots == get_new_slots(D.active, new_slots_data)
             D1 == IF changed
                   THEN [D EXCEPT
                            !.active = new_slots_data,
                            !.file = save_active_slots(@, new_slots_data, io_ok),
                            !.sent = @ \o new_only_slots]
                   ELSE D
         IN UpdateStatistics(D1, found, 1, io_ok)

MonitorState ==
    [active |-> current_active_slots, file |-> active_slots_file,
     notified |-> notified_slots, slots_found |-> stats.slots_found,
     audit |-> audit_log, sent |-> <<>>]

(***************************************************************************)
(* monitor.py: SlotMonitor.__init__ and _load_active_slots.  The module    *)
(* does not import os, so os.path.exists raises NameError inside the try   *)
(* block and the except branch leaves the snapshot empty whatever the      *)
(* file holds.                                                             *)
(***************************************************************************)
load_active_slots(file) == <<>>

DetTask == MkTask("A", <<>>, 1, 1, MaxDay)

FoundAt(d, c, bt, at) ==
    MakeFoundSlot([barcode |-> "A"], DetTask, 100, Coef(d, c, 100, TRUE, bt), at)

\* The slots a run of the detector may be given, stamped with the time at.
FoundUniverse(at) ==
    {FoundAt(1, 0, 1, at), FoundAt(2, 0, 1, at), FoundAt(1, 1, 1, at)}

InitialFiles ==
    {AbsentFile, FileWith(<<>>), FileWith(ToDicts(<<FoundAt(1, 0, 1, 0)>>))}

MonitorConstructed ==
    /\ active_slots_file \in InitialFiles
    /\ current_active_slots = load_active_slots(active_slots_file)
    /\ notified_slots = {}
    /\ stats = [checks_performed |-> 0, slots_found |-> 0, errors_count |-> 0]
    /\ audit_log = <<>>
    /\ sent = <<>>
    /\ runs = 0
    /\ last_found = <<>>
    /\ prev_found = <<>>
    /\ prev_active = <<>>
    /\ last_changed = FALSE
    /\ raised = {}

DetectorIdle ==
    /\ active_slots_file = AbsentFile
    /\ current_active_slots = <<>>
    /\ notified_slots = {}
    /\ stats = [checks_performed |-> 0, slots_found |-> 0, errors_count |-> 0]
    /\ audit_log = <<>>
    /\ sent = <<>>
    /\ runs = 0
    /\ last_found = <<>>
    /\ prev_found = <<>>
    /\ prev_active = <<>>
    /\ last_changed = FALSE
    /\ raised = {}

CycleIdle ==
    /\ tasks = <<>>
    /\ cycles = 0
    /\ last_vendor = <<>>
    /\ same_vendor = FALSE
    /\ vanished = {}
    /\ reappeared = {}

NoWindow == -1

SchedIdle ==
    /\ enable_adaptive_monitoring = "unset"
    /\ now = 0
    /\ current_minute_start = NoWindow
    /\ cycles_in_current_minute = 0
    /\ pc = "off"
    /\ cycle_duration = 0
    /\ pause_duration = 0
    /\ durations = <<>>
    /\ pauses = <<>>
    /\ outcomes = <<>>

\* config.py: Config.validate, the fields that must be filled in
required_fields ==
    {"wb_api_key", "google_sheets_url", "telegram_bot_token",
     "telegram_chat_id"}

\* no script has been started
StartupIdle ==
    /\ entry_point = "none"
    /\ config = [f \in required_fields |-> TRUE]
    /\ boot_pc = "off"
    /\ boot_cycles = 0

\* the loop of start_monitoring has not been entered
StepsIdle ==
    /\ phase = "INIT"
    /\ prev_phase = "INIT"
    /\ cy_step = "idle"
    /\ groups_left = 0
    /\ outstanding = {}
    /\ loop_cycles = 0
    /\ group_results = <<>>

\* no snapshot file, both tasks suspended
FileIdle ==
    /\ disk = [exists |-> FALSE, part |-> "complete", snap |-> 0]
    /\ committed = 0
    /\ writer_pc = "await"
    /\ writing = 0
    /\ reader_pc = "await"
    /\ reads = <<>>

\* The slot ids of the delivery model: f"{barcode}-{warehouse_id}-{date}"
SlotIds == {"A-100-1", "A-100-2"}

\* an empty users table and an empty user_notifications table
DeliveryIdle ==
    /\ subscribed = FALSE
    /\ user_notifications = {}
    /\ delivered = [s \in SlotIds |-> 0]
    /\ file_slots = {}
    /\ push_pc = "await"
    /\ push_slot = "none"
    /\ pull_pc = "await"
    /\ unseen_slots = <<>>

\* run_with_bot.py: WBSlotsSystem.__init__, before start_system is called
SystemIdle ==
    /\ sup_pc = "off"
    /\ bot_task = "absent"
    /\ running = FALSE
    /\ stop_requested = FALSE
    /\ cancelled_after = <<>>

\* wb_api.py: SimpleRateLimiter.__init__
min_intervals_half ==
    [endpoint \in {"general", "coefficients"} |-> 500]

min_intervals ==
    [endpoint \in {"general", "coefficients"} |-> 1000]

LimiterConstructed ==
    /\ last_request_time = [endpoint \in DOMAIN min_intervals |-> 0]
    /\ rl_calls = <<>>

LimiterIdle ==
    /\ LimiterConstructed
    /\ rl_now = 0

MatcherIdle ==
    /\ today = 1
    /\ task = DetTask
    /\ slot = [barcode |-> "A", warehouses |-> <<>>, is_error |-> FALSE]
    /\ coefficients = <<>>
    /\ suitable_slots = <<>>
    /\ m_pc = "off"

(***************************************************************************)
(* Inputs of the matcher.                                                  *)
(***************************************************************************)
CoefUniverse ==
    {Coef(d, 0, 100, TRUE, 1) : d \in Days}
    \cup {Coef(d, 1, 100, TRUE, 1) : d \in Days}
    \cup {Coef(d, 0, 100, FALSE, 1) : d \in Days}
    \cup {Coef(d, 0, 200, TRUE, 1) : d \in Days}
    \cup {Coef(2, 2, 100, TRUE, 1), Coef(2, -1, 100, TRUE, 1),
          Coef(2, 0, 100, TRUE, 2), Coef(2, 0, 100, TRUE, 5)}

MatcherTasks ==
    {MkTask("A", aw, mc, df, dt) :
        aw \in {<<>>, <<100>>}, mc \in {0, 1, 2},
        df \in Days, dt \in Days}

MatcherSlots ==
    {[barcode |-> "A", warehouses |-> ws, is_error |-> FALSE] :
        ws \in {<<>>, <<100>>, <<100, 200>>, <<100, 100>>}}

(***************************************************************************)
(* Specification of the matcher: the inputs are drawn at Init, the action  *)
(* applies the matcher once.                                               *)
(***************************************************************************)
InitMatcher ==
    /\ today \in Todays
    /\ task \in {t \in MatcherTasks : t.date_from <= t.date_to}
    /\ slot \in MatcherSlots
    /\ coefficients \in SeqsUpTo(CoefUniverse, MaxCoefs)
    /\ suitable_slots = <<>>
    /\ m_pc = "input"
    /\ DetectorIdle
    /\ CycleIdle
    /\ SchedIdle
    /\ LimiterIdle
    /\ SystemIdle
    /\ StartupIdle
    /\ StepsIdle
    /\ FileIdle
    /\ DeliveryIdle

FindSuitableSlots ==
    /\ m_pc = "input"
    /\ suitable_slots' = find_suitable_slots_with_coefficients(
                             slot, task, coef_index(coefficients), today, 0)
    /\ m_pc' = "done"
    /\ UNCHANGED <<today, task, slot, coefficients>>
    /\ UNCHANGED detectorVars
    /\ UNCHANGED cycleVars
    /\ UNCHANGED schedVars
    /\ UNCHANGED limiterVars
    /\ UNCHANGED systemVars
    /\ UNCHANGED startupVars
    /\ UNCHANGED stepVars
    /\ UNCHANGED fileVars
    /\ UNCHANGED deliveryVars

NextMatcher == FindSuitableSlots

SpecMatcher == InitMatcher /\ [][NextMatcher]_vars

(***************************************************************************)
(* Specification of the Change Detector: a constructed monitor on which    *)
(* _notify_about_found_slots is run with lists of found slots.             *)
(***************************************************************************)
InitDetector ==
    /\ MatcherIdle
    /\ MonitorConstructed
    /\ CycleIdle
    /\ SchedIdle
    /\ LimiterIdle
    /\ SystemIdle
    /\ StartupIdle
    /\ StepsIdle
    /\ FileIdle
    /\ DeliveryIdle

\* _send_new_slots_to_existing_users: send_slot_notification may raise for
\* a slot (here for at most one of a run); the except branch logs the
\* error and the loop goes on with the next slot.
failed_calls(calls) == {{}} \cup {{i} : i \in DOMAIN calls}

NotifyAboutFoundSlots(found, io_ok) ==
    /\ runs < MaxRuns
    /\ \E D \in {notify_about_found_slots(MonitorState, found, io_ok)} :
       /\ current_active_slots' = D.active
       /\ active_slots_file' = D.file
       /\ notified_slots' = D.notified
       /\ stats' = [stats EXCEPT !.slots_found = D.slots_found]
       /\ audit_log' = D.audit
       /\ sent' = D.sent
       /\ raised' \in failed_calls(D.sent)
    /\ runs' = runs + 1
    /\ prev_found' = last_found
    /\ last_found' = found
    /\ prev_active' = current_active_slots
    /\ last_changed' = (found # <<>>
                        /\ slots_changed(current_active_slots, ToDicts(found)))
    /\ UNCHANGED matcherVars
    /\ UNCHANGED cycleVars
    /\ UNCHANGED schedVars
    /\ UNCHANGED limiterVars
    /\ UNCHANGED systemVars
    /\ UNCHANGED startupVars
    /\ UNCHANGED stepVars
    /\ UNCHANGED fileVars
    /\ UNCHANGED deliveryVars

NextDetector ==
    \E found \in SeqsUpTo(FoundUniverse(runs + 1), MaxFound), io_ok \in BOOLEAN :
        NotifyAboutFoundSlots(found, io_ok)

SpecDetector == InitDetector /\ [][NextDetector]_vars

(***************************************************************************)
(* sheets_parser.py: MonitoringTask.is_date_valid                          *)
(***************************************************************************)
MonitoringStartBuffer == 30

is_date_valid_from_start(t, cur) ==
    t.date_from <= cur /\ cur <= t.date_to

is_date_valid(t, cur) ==
    t.date_from - MonitoringStartBuffer <= cur /\ cur <= t.date_to

(***************************************************************************)
(* monitor.py: _group_tasks_for_api                                        *)
(***************************************************************************)
GroupSize == 50

group_tasks_for_api(ts) ==
    [g \in 1..((Len(ts) + GroupSize - 1) \div GroupSize) |->
        SubSeq(ts, (g - 1) * GroupSize + 1,
               IF g * GroupSize <= Len(ts) THEN g * GroupSize ELSE Len(ts))]

(***************************************************************************)
(* monitor.py: _check_task_group.  resp is what the vendor answers to the  *)
(* two calls of the group: options_fail / coefs_fail say that the call     *)
(* raised, slots is the parsed list of SlotInfo and coefficients the       *)
(* parsed list of AcceptanceCoefficient.                                   *)
(***************************************************************************)
all_warehouse_ids(slots) ==
    UNION {Range(slots[i].warehouses) :
              i \in {j \in DOMAIN slots : ~slots[j].is_error}}

TaskIndexFor(group, bc) ==
    {i \in DOMAIN group : group[i].barcode = bc}

FirstTaskFor(group, bc) ==
    group[CHOOSE i \in TaskIndexFor(group, bc) :
              \A j \in TaskIndexFor(group, bc) : i <= j]

\* if slot.is_error: ... continue -- the loop goes on with the next product
after_error_break(slots, i) == Len(slots) + 1

after_error(slots, i) == i + 1

RECURSIVE AnalyseSlots(_, _, _, _, _, _, _, _)
AnalyseSlots(D, group, slots, idx, i, cur, at, io_ok) ==
    IF i > Len(slots) THEN D
    ELSE IF slots[i].is_error
         THEN AnalyseSlots(D, group, slots, idx, after_error(slots, i), cur,
                           at, io_ok)
    ELSE IF TaskIndexFor(group, slots[i].barcode) = {}
         THEN AnalyseSlots(D, group, slots, idx, i + 1, cur, at, io_ok)
    ELSE LET t == FirstTaskFor(group, slots[i].barcode)
             found == find_suitable_slots_with_coefficients(
                          slots[i], t, idx, cur, at)
             D1 == IF found # <<>>
                   THEN notify_about_found_slots(D, found, io_ok)
                   ELSE D
         IN AnalyseSlots(D1, group, slots, idx, i + 1, cur, at, io_ok)

check_task_group(D, group, resp, cur, at, io_ok) ==
    IF resp.options_fail THEN D
    ELSE IF all_warehouse_ids(resp.slots) = {} THEN D
    ELSE IF resp.coefs_fail THEN D
    ELSE AnalyseSlots(D, group, resp.slots, coef_index(resp.coefficients),
                      1, cur, at, io_ok)

(***************************************************************************)
(* monitor.py: _perform_monitoring_cycle                                   *)
(***************************************************************************)
active_tasks(ts, cur) ==
    SelectSeq(ts, LAMBDA t : t.is_active /\ is_date_valid(t, cur))

RECURSIVE CheckGroups(_, _, _, _, _, _, _)
CheckGroups(D, groups, resps, g, cur, at, io_ok) ==
    IF g > Len(groups) THEN D
    ELSE CheckGroups(check_task_group(D, groups[g], resps[g], cur, at, io_ok),
                     groups, resps, g + 1, cur, at, io_ok)

perform_monitoring_cycle(D, ts, sheet_ok, resps, cur, at, io_ok) ==
    IF ~sheet_ok THEN D
    ELSE IF active_tasks(ts, cur) = <<>> THEN D
    ELSE CheckGroups(D, group_tasks_for_api(active_tasks(ts, cur)), resps,
                     1, cur, at, io_ok)

(***************************************************************************)
(* Inputs of the monitoring cycle.                                         *)
(***************************************************************************)
\* Rows that the cycle must leave out: switched off, over since day 0, or
\* starting on day 32, more than 30 days after day 1; and a row starting on
\* day 31, exactly 30 days after day 1.
InactiveTask(bc) == [MkTask(bc, <<>>, 1, 1, MaxDay) EXCEPT !.is_active = FALSE]

ExpiredTask(bc) == MkTask(bc, <<>>, 1, 0, 0)

FarTask(bc) == MkTask(bc, <<>>, 1, 32, 32 + MaxDay)

EarlyTask(bc) == MkTask(bc, <<>>, 1, 31, 31 + MaxDay)

CycleTaskLists ==
    {<<MkTask("A", <<>>, 1, 1, MaxDay)>>,
     <<MkTask("A", <<>>, 1, 1, MaxDay), MkTask("B", <<>>, 1, 1, MaxDay)>>,
     <<InactiveTask("A"), MkTask("B", <<>>, 1, 1, MaxDay)>>,
     <<ExpiredTask("A"), FarTask("B")>>,
     <<FarTask("A"), EarlyTask("B")>>,
     <<MkTask("A", <<200>>, 1, 1, MaxDay), MkTask("A", <<100>>, 1, 1, MaxDay)>>}

CycleCoefs == {Coef(1, 0, 100, TRUE, 1), Coef(2, 0, 100, TRUE, 1)}

\* Coefficient lists of the vendor: entries in date order, none twice.
CycleCoefLists ==
    {cs \in SeqsUpTo(CycleCoefs, MaxCycleCoefs) :
        \A i \in DOMAIN cs : \A j \in DOMAIN cs :
            i < j => cs[i].date < cs[j].date}

SlotInfos(bc) ==
    {[barcode |-> bc, warehouses |-> <<>>, is_error |-> TRUE],
     [barcode |-> bc, warehouses |-> <<>>, is_error |-> FALSE],
     [barcode |-> bc, warehouses |-> <<100>>, is_error |-> FALSE]}

SlotInfoLists(group) ==
    {q \in [DOMAIN group -> UNION {SlotInfos(group[i].barcode) :
                                      i \in DOMAIN group}] :
        \A i \in DOMAIN group : q[i].barcode = group[i].barcode}

\* The answers the vendor may give for one group of tasks.
VendorResponses(group) ==
    {[options_fail |-> TRUE, coefs_fail |-> FALSE, slots |-> <<>>,
      coefficients |-> <<>>]}
    \cup
    {[options_fail |-> FALSE, coefs_fail |-> TRUE,
      slots |-> [i \in DOMAIN group |->
                    [barcode |-> group[i].barcode, warehouses |-> <<100>>,
                     is_error |-> FALSE]],
      coefficients |-> <<>>]}
    \cup
    {[options_fail |-> FALSE, coefs_fail |-> FALSE, slots |-> sl,
      coefficients |-> cs] :
        sl \in SlotInfoLists(group), cs \in CycleCoefLists}

\* One answer for each group of the active tasks.
RECURSIVE ResponsesFor(_)
ResponsesFor(groups) ==
    IF groups = <<>> THEN {<<>>}
    ELSE {<<r>> \o rest : r \in VendorResponses(Head(groups)),
                          rest \in ResponsesFor(Tail(groups))}

CycleResponses ==
    ResponsesFor(group_tasks_for_api(active_tasks(tasks, today)))

(***************************************************************************)
(* What a cycle finds, read off the answers of the vendor, for the history *)
(* of the cycles.                                                          *)
(***************************************************************************)
\* The identity keys of the slots the answer resp of the vendor holds for
\* its i-th product under the constraints of the row t: the available
\* coefficient entries, from today on, at the warehouses offered to the
\* product, that the row accepts.
TaskKeys(resp, i, t) ==
    LET s == resp.slots[i]
    IN {<<s.barcode, c.warehouse_id, c.date, c.box_type_name,
          c.coefficient>> :
           c \in {x \in Range(resp.coefficients) :
                     /\ ~s.is_error
                     /\ x.warehouse_id \in Range(s.warehouses)
                     /\ x.coefficient \in {0, 1}
                     /\ x.allow_unload
                     /\ x.date >= today
                     /\ t.date_from <= x.date /\ x.date <= t.date_to
                     /\ x.coefficient <= t.max_coefficient
                     /\ (t.allowed_warehouses = <<>>
                         \/ x.warehouse_id \in Range(t.allowed_warehouses))}}

\* The identity keys of the slots the answer resp holds for its i-th
\* product: what the rows of the sheet for that product accept.
ExpectedKeys(resp, i) ==
    UNION {TaskKeys(resp, i, t) :
              t \in {x \in Range(tasks) :
                         x.barcode = resp.slots[i].barcode}}

\* The identity keys of all slots the answers of one cycle hold.
FoundKeys(resps) ==
    UNION {UNION {ExpectedKeys(resps[g], i) : i \in DOMAIN resps[g].slots} :
              g \in DOMAIN resps}

\* The cycle asked the vendor and every call was answered, for every
\* product.
CleanAnswers(resps) ==
    /\ resps # <<>>
    /\ \A g \in DOMAIN resps :
           /\ ~resps[g].options_fail
           /\ ~resps[g].coefs_fail
           /\ \A i \in DOMAIN resps[g].slots : ~resps[g].slots[i].is_error

SnapshotKeys(dicts) ==
    {<<dicts[i].barcode, dicts[i].warehouse_id, dicts[i].date,
       dicts[i].box_type_name, dicts[i].coefficient>> : i \in DOMAIN dicts}

(***************************************************************************)
(* Specification of the monitoring cycle: a constructed monitor running    *)
(* _perform_monitoring_cycle against the sheet and the vendor.             *)
(***************************************************************************)
InitCycle ==
    /\ MatcherIdle
    /\ MonitorConstructed
    /\ tasks \in CycleTaskLists
    /\ cycles = 0
    /\ last_vendor = <<>>
    /\ same_vendor = FALSE
    /\ vanished = {}
    /\ reappeared = {}
    /\ SchedIdle
    /\ LimiterIdle
    /\ SystemIdle
    /\ StartupIdle
    /\ StepsIdle
    /\ FileIdle
    /\ DeliveryIdle

PerformMonitoringCycle(sheet_ok, resps, io_ok) ==
    /\ cycles < MaxCycles
    /\ \E D \in {perform_monitoring_cycle(MonitorState, tasks, sheet_ok, resps,
                                          today, cycles + 1, io_ok)} :
       /\ current_active_slots' = D.active
       /\ active_slots_file' = D.file
       /\ notified_slots' = D.notified
       /\ stats' = [stats EXCEPT !.checks_performed = @ + 1,
                                 !.slots_found = D.slots_found]
       /\ audit_log' = D.audit
       /\ sent' = D.sent
    /\ cycles' = cycles + 1
    /\ last_vendor' = resps
    /\ same_vendor' = (cycles >= 1 /\ sheet_ok /\ resps = last_vendor)
    /\ reappeared' = vanished \cap FoundKeys(resps)
    /\ vanished' = IF sheet_ok /\ CleanAnswers(resps)
                   THEN (vanished \cup SnapshotKeys(current_active_slots))
                            \ FoundKeys(resps)
                   ELSE vanished \ FoundKeys(resps)
    /\ UNCHANGED <<runs, last_found, prev_found, prev_active, last_changed,
                   raised>>
    /\ UNCHANGED <<tasks>>
    /\ UNCHANGED matcherVars
    /\ UNCHANGED schedVars
    /\ UNCHANGED limiterVars
    /\ UNCHANGED systemVars
    /\ UNCHANGED startupVars
    /\ UNCHANGED stepVars
    /\ UNCHANGED fileVars
    /\ UNCHANGED deliveryVars

NextCycle ==
    \/ PerformMonitoringCycle(FALSE, <<>>, TRUE)
    \/ /\ cycles < MaxCycles
       /\ \E resps \in CycleResponses, io_ok \in BOOLEAN :
              PerformMonitoringCycle(TRUE, resps, io_ok)

SpecCycle == InitCycle /\ [][NextCycle]_vars

(***************************************************************************)
(* monitor.py: _calculate_dynamic_pause.  Times are in milliseconds.  W is *)
(* the window state [start, cycles]; the result is the pause and the       *)
(* window state afterwards.                                                *)
(***************************************************************************)
WindowMs == 60000
CyclesPerMinute == 6
SlowCycleMs_20s == 2 * 10000
SlowCycleMs == 10000
MinPauseMs == 100
CheckIntervalMs_60s == 60 * 1000

CheckIntervalMs == 120000
RecoveryPauseMs == 30000

count_cycle(t, W) ==
    IF W.start = NoWindow \/ t - W.start >= WindowMs
    THEN [start |-> t, cycles |-> 1]
    ELSE [start |-> W.start, cycles |-> W.cycles + 1]

pause_for(d, t, W) ==
    IF d >= SlowCycleMs THEN MinPauseMs
    ELSE IF W.cycles >= CyclesPerMinute
         THEN LET time_to_next_minute == WindowMs - (t - W.start) IN
              IF time_to_next_minute > 0 THEN time_to_next_minute
              ELSE MinPauseMs
    ELSE LET elapsed_time == t - W.start
             remaining_time == WindowMs - elapsed_time
             remaining_cycles == CyclesPerMinute - W.cycles
         IN IF remaining_cycles <= 0 THEN MinPauseMs
            ELSE Max2(MinPauseMs, remaining_time \div remaining_cycles)

calculate_dynamic_pause(d, t, W) ==
    LET W1 == count_cycle(t, W) IN
    [pause |-> pause_for(d, t, W1), start |-> W1.start, cycles |-> W1.cycles]

(***************************************************************************)
(* Inputs of the scheduler.                                                *)
(***************************************************************************)
CycleDurations == {2000, 11385, 15000}

(***************************************************************************)
(* Specification of the scheduler: start_monitoring of a constructed       *)
(* monitor.  src/config.py defines no enable_adaptive_monitoring field, so *)
(* the attribute is unset unless the deployment sets it on the config      *)
(* object; reading it unset raises AttributeError inside the loop's try.   *)
(***************************************************************************)
InitSched ==
    /\ MatcherIdle
    /\ LimiterIdle
    /\ SystemIdle
    /\ StartupIdle
    /\ StepsIdle
    /\ FileIdle
    /\ DeliveryIdle
    /\ DetectorIdle
    /\ CycleIdle
    /\ enable_adaptive_monitoring \in {"unset", "on", "off"}
    /\ now = 0
    /\ current_minute_start = NoWindow
    /\ cycles_in_current_minute = 0
    /\ pc = "start"
    /\ cycle_duration = 0
    /\ pause_duration = 0
    /\ durations = <<>>
    /\ pauses = <<>>
    /\ outcomes = <<>>

SchedFrame ==
    /\ UNCHANGED matcherVars
    /\ UNCHANGED limiterVars
    /\ UNCHANGED systemVars
    /\ UNCHANGED startupVars
    /\ UNCHANGED stepVars
    /\ UNCHANGED fileVars
    /\ UNCHANGED deliveryVars
    /\ UNCHANGED cycleVars
    /\ UNCHANGED <<current_active_slots, active_slots_file, notified_slots,
                   audit_log, sent, runs, last_found, prev_found, prev_active,
                   last_changed, raised>>

\* wb_api.test_connection before the loop
TestConnection(ok) ==
    /\ pc = "start"
    /\ pc' = IF ok THEN "cycle" ELSE "returned"
    /\ UNCHANGED <<enable_adaptive_monitoring, now, current_minute_start,
                   cycles_in_current_minute, cycle_duration, pause_duration,
                   durations, pauses, outcomes, stats>>
    /\ SchedFrame

\* cycle_start = time.time(); await _perform_monitoring_cycle();
\* cycle_duration = time.time() - cycle_start
\* Whatever fails inside the cycle is caught inside it: reading the sheet
\* (lines 231-240), a vendor call (lines 286-310) or the analysis and the
\* notification of a group (lines 250-256); the cycle returns normally.
RunCycle(d, outcome) ==
    /\ pc = "cycle"
    /\ Len(durations) < MaxSchedCycles
    /\ now' = now + d
    /\ cycle_duration' = d
    /\ durations' = Append(durations, d)
    /\ outcomes' = Append(outcomes, outcome)
    /\ stats' = [stats EXCEPT !.checks_performed = @ + 1]
    /\ pc' = "pause"
    /\ UNCHANGED <<enable_adaptive_monitoring, current_minute_start,
                   cycles_in_current_minute, pause_duration, pauses>>
    /\ SchedFrame

\* pause_duration = self._calculate_dynamic_pause(cycle_duration)
ComputePause ==
    /\ pc = "pause"
    /\ \/ /\ enable_adaptive_monitoring = "unset"
          /\ stats' = [stats EXCEPT !.errors_count = @ + 1]
          /\ pause_duration' = RecoveryPauseMs
          /\ pauses' = Append(pauses, RecoveryPauseMs)
          /\ pc' = "recover"
          /\ UNCHANGED <<current_minute_start, cycles_in_current_minute>>
       \/ /\ enable_adaptive_monitoring = "off"
          /\ pause_duration' = CheckIntervalMs
          /\ pauses' = Append(pauses, CheckIntervalMs)
          /\ pc' = "sleep"
          /\ UNCHANGED <<current_minute_start, cycles_in_current_minute, stats>>
       \/ /\ enable_adaptive_monitoring = "on"
          /\ \E R \in {calculate_dynamic_pause(
                           cycle_duration, now,
                           [start |-> current_minute_start,
                            cycles |-> cycles_in_current_minute])} :
                /\ pause_duration' = R.pause
                /\ pauses' = Append(pauses, R.pause)
                /\ current_minute_start' = R.start
                /\ cycles_in_current_minute' = R.cycles
                /\ pc' = IF R.pause > 0 THEN "sleep" ELSE "cycle"
          /\ UNCHANGED stats
    /\ UNCHANGED <<enable_adaptive_monitoring, now, cycle_duration, durations,
                   outcomes>>
    /\ SchedFrame

\* await asyncio.sleep(pause_duration)
Sleep ==
    /\ pc = "sleep"
    /\ now' = now + pause_duration
    /\ pc' = "cycle"
    /\ UNCHANGED <<enable_adaptive_monitoring, current_minute_start,
                   cycles_in_current_minute, cycle_duration, pause_duration,
                   durations, pauses, outcomes, stats>>
    /\ SchedFrame

\* while True: after the recovery sleep control is back at the top of the
\* loop.
after_recovery_break == "returned"

after_recovery == "cycle"

\* except Exception: errors_count += 1; await asyncio.sleep(30)
RecoverySleep ==
    /\ pc = "recover"
    /\ now' = now + RecoveryPauseMs
    /\ pc' = after_recovery
    /\ UNCHANGED <<enable_adaptive_monitoring, current_minute_start,
                   cycles_in_current_minute, cycle_duration, pause_duration,
                   durations, pauses, outcomes, stats>>
    /\ SchedFrame

NextSched ==
    \/ \E ok \in BOOLEAN : TestConnection(ok)
    \/ \E d \in CycleDurations : RunCycle(d, "ok")
    \/ ComputePause
    \/ Sleep
    \/ RecoverySleep

SpecSched == InitSched /\ [][NextSched]_vars

(***************************************************************************)
(* Specification of the pause function inside a running loop: the loop is  *)
(* about to start a cycle, with no window or with a window opened          *)
(* elapsed milliseconds ago in which counted cycles were counted.          *)
(* asyncio.sleep returns no earlier than asked and a cycle takes whatever  *)
(* the sheet and the vendor take, so every elapsed time can be met.        *)
(***************************************************************************)
LoopStartMs == 100000
WindowAges == {20000, 57999, 58000, 58001}
WindowCounts == {1, 4, 5, 6}

InitPause ==
    /\ MatcherIdle
    /\ LimiterIdle
    /\ SystemIdle
    /\ StartupIdle
    /\ StepsIdle
    /\ FileIdle
    /\ DeliveryIdle
    /\ DetectorIdle
    /\ CycleIdle
    /\ enable_adaptive_monitoring \in {"unset", "on", "off"}
    /\ now = LoopStartMs
    /\ \/ /\ current_minute_start = NoWindow
          /\ cycles_in_current_minute = 0
       \/ /\ enable_adaptive_monitoring = "on"
          /\ \E elapsed \in WindowAges :
                 current_minute_start = LoopStartMs - elapsed
          /\ cycles_in_current_minute \in WindowCounts
    /\ pc = "cycle"
    /\ cycle_duration = 0
    /\ pause_duration = 0
    /\ durations = <<>>
    /\ pauses = <<>>
    /\ outcomes = <<>>

NextPause ==
    \/ \E d \in CycleDurations : RunCycle(d, "ok")
    \/ ComputePause
    \/ Sleep
    \/ RecoverySleep

SpecPause == InitPause /\ [][NextPause]_vars

(***************************************************************************)
(* Exceptions and the handlers of the loop of start_monitoring.            *)
(* asyncio.CancelledError and KeyboardInterrupt derive from BaseException, *)
(* not from Exception.                                                     *)
(***************************************************************************)
IsException_with_cancellation(exc) == exc # "KeyboardInterrupt"

IsException(exc) == exc \notin {"CancelledError", "KeyboardInterrupt"}

\* try ... except KeyboardInterrupt: break / except Exception: count, sleep(30)
loop_handler(exc) ==
    IF exc = "KeyboardInterrupt" THEN "returned"
    ELSE IF IsException(exc) THEN "recover"
    ELSE IF exc = "CancelledError" THEN "cancelled"
    ELSE "raised"

\* Where the monitoring task is after CancelledError is thrown into it at
\* the await it is suspended in.  The task is suspended at the start-up
\* awaits, inside a cycle (position "cycle": the task never waits between
\* the end of a sleep and the cycle after it), in the sleep of the pause
\* or in the recovery sleep, which is inside the except clause.
deliver_cancel(p) ==
    IF p \in {"cycle", "sleep"} THEN loop_handler("CancelledError")
    ELSE "cancelled"

MonitorDone == pc \in {"returned", "raised", "cancelled"}

BotDone == bot_task \in {"returned", "raised", "cancelled"}

\* task.cancel() on the monitoring task
CancelMonitor ==
    /\ pc' = deliver_cancel(pc)
    /\ stats' = [stats EXCEPT
                    !.checks_performed = IF pc = "cycle" THEN @ + 1 ELSE @,
                    !.errors_count =
                        IF deliver_cancel(pc) = "recover" THEN @ + 1 ELSE @]
    /\ cancelled_after' =
           <<[at |-> pc,
              cycles |-> IF pc = "cycle" THEN stats.checks_performed + 1
                         ELSE stats.checks_performed]>>

\* task.cancel() on a task of the bot listener: start_polling re-raises
cancel_pending_skip(b) == b

cancel_pending(b) == IF b = "running" THEN "cancelled" ELSE b

(***************************************************************************)
(* Specification of the whole system: run_with_bot.py, start_system with   *)
(* the monitoring task (the loop above) and the task of the bot listener.  *)
(***************************************************************************)
LoopDurations == {2000, 11385}
Outcomes == {"ok", "fetch_failed", "api_failed", "group_failed"}

InitSystem ==
    /\ MatcherIdle
    /\ DetectorIdle
    /\ CycleIdle
    /\ LimiterIdle
    /\ SystemIdle
    /\ StartupIdle
    /\ StepsIdle
    /\ FileIdle
    /\ DeliveryIdle
    /\ enable_adaptive_monitoring \in {"unset", "on", "off"}
    /\ now = 0
    /\ current_minute_start = NoWindow
    /\ cycles_in_current_minute = 0
    /\ pc = "off"
    /\ cycle_duration = 0
    /\ pause_duration = 0
    /\ durations = <<>>
    /\ pauses = <<>>
    /\ outcomes = <<>>

SystemFrame ==
    /\ UNCHANGED matcherVars
    /\ UNCHANGED startupVars
    /\ UNCHANGED stepVars
    /\ UNCHANGED fileVars
    /\ UNCHANGED deliveryVars
    /\ UNCHANGED cycleVars
    /\ UNCHANGED limiterVars
    /\ UNCHANGED <<current_active_slots, active_slots_file, notified_slots,
                   audit_log, sent, runs, last_found, prev_found, prev_active,
                   last_changed, raised>>
    /\ UNCHANGED <<enable_adaptive_monitoring, now, current_minute_start,
                   cycles_in_current_minute, cycle_duration, pause_duration,
                   durations, pauses, outcomes>>

\* start_system up to asyncio.wait: the bot is initialised, the tasks are
\* created.
StartSystem(bot_ok) ==
    /\ sup_pc = "off"
    /\ sup_pc' = "waiting"
    /\ running' = TRUE
    /\ pc' = "start"
    /\ bot_task' = IF bot_ok THEN "running" ELSE "absent"
    /\ UNCHANGED <<stats, stop_requested, cancelled_after>>
    /\ SystemFrame

\* start_monitoring: initialize_bot raises something other than ImportError
MonitorInitFails ==
    /\ pc = "start"
    /\ pc' = "raised"
    /\ UNCHANGED <<stats, sup_pc, bot_task, running, stop_requested,
                   cancelled_after>>
    /\ SystemFrame

\* telegram_bot.start_polling ends by returning or by raising
BotTerminates(how) ==
    /\ bot_task = "running"
    /\ bot_task' = how
    /\ UNCHANGED <<pc, stats, sup_pc, running, stop_requested, cancelled_after>>
    /\ SystemFrame

\* start_system from the return of asyncio.wait(FIRST_COMPLETED) to its
\* end: the pending task is cancelled and awaited, the done tasks are
\* awaited, running is cleared.  Awaiting a done task that was cancelled
\* raises CancelledError out of start_system.
Supervise ==
    /\ sup_pc = "waiting"
    /\ MonitorDone \/ BotDone
    /\ IF MonitorDone THEN UNCHANGED <<pc, stats, cancelled_after>>
       ELSE CancelMonitor
    /\ bot_task' = cancel_pending(bot_task)
    /\ LET pending_left ==
               \/ ~MonitorDone /\ deliver_cancel(pc)
                                     \notin {"returned", "raised", "cancelled"}
               \/ cancel_pending(bot_task) = "running"
           done_cancelled ==
               \/ MonitorDone /\ pc = "cancelled"
               \/ bot_task = "cancelled"
       IN /\ sup_pc' = IF pending_left THEN "awaiting"
                       ELSE IF done_cancelled THEN "raised"
                       ELSE "returned"
          /\ running' = pending_left
    /\ UNCHANGED stop_requested
    /\ SystemFrame

\* stop_system, run by the signal handler: every task not done is cancelled
StopSystem ==
    /\ running
    /\ ~stop_requested
    /\ IF MonitorDone THEN UNCHANGED <<pc, stats, cancelled_after>>
       ELSE CancelMonitor
    /\ bot_task' = cancel_pending(bot_task)
    /\ running' = FALSE
    /\ stop_requested' = TRUE
    /\ UNCHANGED sup_pc
    /\ SystemFrame

NextSystem ==
    \/ \E bot_ok \in BOOLEAN : StartSystem(bot_ok)
    \/ \E ok \in BOOLEAN : TestConnection(ok)
    \/ MonitorInitFails
    \/ \E d \in LoopDurations, o \in Outcomes :
           /\ Len(durations) < MaxLoopCycles
           /\ RunCycle(d, o)
    \/ ComputePause
    \/ Sleep
    \/ RecoverySleep
    \/ \E how \in {"returned", "raised"} : BotTerminates(how)
    \/ Supervise
    \/ StopSystem

SpecSystem == InitSystem /\ [][NextSystem]_vars

\* The system while nothing terminates and nothing is cancelled: the bot
\* listener keeps running and no signal arrives.
NextRunning ==
    \/ \E bot_ok \in BOOLEAN : StartSystem(bot_ok)
    \/ \E ok \in BOOLEAN : TestConnection(ok)
    \/ \E d \in LoopDurations, o \in Outcomes :
           /\ Len(durations) < MaxLoopCycles
           /\ RunCycle(d, o)
    \/ ComputePause
    \/ Sleep
    \/ RecoverySleep

\* The event loop runs a task that is ready and every sleep ends.
SpecRunning == InitSystem /\ [][NextRunning]_vars /\ WF_vars(NextRunning)

(***************************************************************************)
(* wb_api.py: SimpleRateLimiter.wait_if_needed.  t is time.time() at the   *)
(* entry of the call and last is last_request_time.                        *)
(***************************************************************************)
endpoint_category_coefficients(endpoint_type) ==
    IF endpoint_type \notin DOMAIN min_intervals THEN "coefficients"
    ELSE endpoint_type

endpoint_category(endpoint_type) ==
    IF endpoint_type \notin DOMAIN min_intervals THEN "general"
    ELSE endpoint_type

sleep_time(endpoint_type, t, last) ==
    LET c == endpoint_category(endpoint_type)
        min_interval == min_intervals[c]
        time_since_last == t - last[c]
    IN IF time_since_last < min_interval
       THEN min_interval - time_since_last
       ELSE 0

\* The call entered at time t; asyncio.sleep returns `late` after the time
\* asked for.  The result is the time of return and the timestamps then.
wait_if_needed(endpoint_type, t, last, late) ==
    LET c == endpoint_category(endpoint_type)
        st == sleep_time(endpoint_type, t, last)
        returned == IF st > 0 THEN t + st + late ELSE t
    IN [returned |-> returned, last |-> [last EXCEPT ![c] = returned]]

(***************************************************************************)
(* Specification of the rate limiter: one client used sequentially.  Each  *)
(* call is entered `gap` after the one before it finished.  The clock is   *)
(* time.time(), far above the initial timestamps 0.                        *)
(***************************************************************************)
StartTimes == {5000}
Gaps == {0, 400, 1200}
Lateness == {0, 30}
EndpointTypes == {"general", "coefficients", "warehouses"}
ResponseTimes == {200}

InitLimiter ==
    /\ MatcherIdle
    /\ DetectorIdle
    /\ CycleIdle
    /\ SchedIdle
    /\ LimiterConstructed
    /\ rl_now \in StartTimes
    /\ SystemIdle
    /\ StartupIdle
    /\ StepsIdle
    /\ FileIdle
    /\ DeliveryIdle

LimiterFrame ==
    /\ UNCHANGED matcherVars
    /\ UNCHANGED systemVars
    /\ UNCHANGED startupVars
    /\ UNCHANGED stepVars
    /\ UNCHANGED fileVars
    /\ UNCHANGED deliveryVars
    /\ UNCHANGED detectorVars
    /\ UNCHANGED cycleVars
    /\ UNCHANGED schedVars

CallRecord(op, endpoint_type, gap, entered, R, finished) ==
    [op |-> op, endpoint_type |-> endpoint_type,
     category |-> endpoint_category(endpoint_type), gap |-> gap,
     entered |-> entered, returned |-> R.returned, finished |-> finished,
     last_before |-> last_request_time, last_after |-> R.last]

\* await rate_limiter.wait_if_needed(endpoint_type)
WaitIfNeeded(endpoint_type, gap, late) ==
    /\ Len(rl_calls) < MaxCalls
    /\ \E R \in {wait_if_needed(endpoint_type, rl_now + gap,
                                 last_request_time, late)} :
       /\ last_request_time' = R.last
       /\ rl_now' = R.returned
       /\ rl_calls' = Append(rl_calls,
                             CallRecord("wait_if_needed", endpoint_type, gap,
                                        rl_now + gap, R, R.returned))
    /\ LimiterFrame

\* await api.get_acceptance_coefficients(...): _make_request waits on the
\* limiter with endpoint_type 'coefficients' and then performs the HTTP
\* request, which takes rt.
GetAcceptanceCoefficients(gap, late, rt) ==
    /\ Len(rl_calls) < MaxCalls
    /\ \E R \in {wait_if_needed("coefficients", rl_now + gap,
                                 last_request_time, late)} :
       /\ last_request_time' = R.last
       /\ rl_now' = R.returned + rt
       /\ rl_calls' = Append(rl_calls,
                             CallRecord("get_acceptance_coefficients",
                                        "coefficients", gap, rl_now + gap, R,
                                        R.returned + rt))
    /\ LimiterFrame

NextLimiter ==
    \/ \E e \in EndpointTypes, gap \in Gaps, late \in Lateness :
           WaitIfNeeded(e, gap, late)
    \/ \E gap \in Gaps, late \in Lateness, rt \in ResponseTimes :
           GetAcceptanceCoefficients(gap, late, rt)

SpecLimiter == InitLimiter /\ [][NextLimiter]_vars

(***************************************************************************)
(* Start-up of the program.  The monitoring loop is started by three       *)
(* scripts: main.py (main, run_monitoring), monitor.py (main) and          *)
(* run_with_bot.py (main, start_system).  config holds, for every          *)
(* required field, whether the environment filled it in.                   *)
(***************************************************************************)
EntryPoints == {"main.py", "monitor.py", "run_with_bot.py"}

\* config.py: Config.validate
validate(c) == \A field \in required_fields : c[field]

\* main.py: validate_config.  Only a missing source file makes it fail; an
\* unset key, sheet URL or bot token is printed as a warning, the chat id
\* is not looked at.
validate_config(c, files_ok) == files_ok

\* the check the entry point makes before it starts the monitor
entry_check(e, c, files_ok) ==
    IF e = "main.py" THEN validate_config(c, files_ok) ELSE validate(c)

InitStartup ==
    /\ StepsIdle
    /\ FileIdle
    /\ DeliveryIdle
    /\ MatcherIdle
    /\ DetectorIdle
    /\ CycleIdle
    /\ SchedIdle
    /\ LimiterIdle
    /\ SystemIdle
    /\ entry_point \in EntryPoints
    /\ config \in [required_fields -> BOOLEAN]
    /\ boot_pc = "launched"
    /\ boot_cycles = 0

StartupFrame ==
    /\ UNCHANGED stepVars
    /\ UNCHANGED fileVars
    /\ UNCHANGED deliveryVars
    /\ UNCHANGED matcherVars
    /\ UNCHANGED detectorVars
    /\ UNCHANGED cycleVars
    /\ UNCHANGED schedVars
    /\ UNCHANGED limiterVars
    /\ UNCHANGED systemVars

\* main of the entry point up to the call of start_monitoring
Launch(files_ok) ==
    /\ boot_pc = "launched"
    /\ boot_pc' = IF entry_check(entry_point, config, files_ok)
                  THEN "start_monitoring"
                  ELSE "exited"
    /\ UNCHANGED <<entry_point, config, boot_cycles>>
    /\ StartupFrame

\* monitor.py: start_monitoring up to the loop.  initialize_bot returns
\* None without a token and the monitor goes on without notifications;
\* test_connection decides whether the loop starts.  The vendor does not
\* accept a request made without a key.
StartMonitoring(connected) ==
    /\ boot_pc = "start_monitoring"
    /\ connected => config["wb_api_key"]
    /\ boot_pc' = IF connected THEN "loop" ELSE "exited"
    /\ UNCHANGED <<entry_point, config, boot_cycles>>
    /\ StartupFrame

\* monitor.py: start_monitoring, one iteration of while True.  A cycle
\* that cannot read the sheet or reach the vendor ends the iteration, not
\* the loop.
LoopIteration ==
    /\ boot_pc = "loop"
    /\ boot_cycles < MaxBootCycles
    /\ boot_cycles' = boot_cycles + 1
    /\ UNCHANGED <<entry_point, config, boot_pc>>
    /\ StartupFrame

NextStartup ==
    \/ \E files_ok \in BOOLEAN : Launch(files_ok)
    \/ \E connected \in BOOLEAN : StartMonitoring(connected)
    \/ LoopIteration

SpecStartup == InitStartup /\ [][NextStartup]_vars

(***************************************************************************)
(* The steps of the loop of start_monitoring and of one cycle, one await   *)
(* at a time: the sheet read, then for every group the options call, the   *)
(* coefficients call, the analysis with its notifications and the pause of *)
(* one second; then the pause computation and the sleep.                   *)
(***************************************************************************)
\* slots = await self.wb_api.check_acceptance_options(products);
\* coefficients = await self.wb_api.get_acceptance_coefficients(...):
\* the coroutine waits for the call it issued.
await_call_detached(call) ==
    IF call = "options" THEN "coefficients" ELSE "analyse"

await_call(call) ==
    IF call = "options" THEN "options_wait" ELSE "coefficients_wait"

\* for group in grouped_tasks: the step after a group is done
next_group(left) == IF left > 1 THEN "options" ELSE "done"

InitSteps ==
    /\ FileIdle
    /\ DeliveryIdle
    /\ MatcherIdle
    /\ DetectorIdle
    /\ CycleIdle
    /\ SchedIdle
    /\ LimiterIdle
    /\ SystemIdle
    /\ StartupIdle
    /\ phase = "INIT"
    /\ prev_phase = "INIT"
    /\ cy_step = "idle"
    /\ groups_left = 0
    /\ outstanding = {}
    /\ loop_cycles = 0
    /\ group_results = <<>>

StepsFrame ==
    /\ UNCHANGED fileVars
    /\ UNCHANGED deliveryVars
    /\ UNCHANGED matcherVars
    /\ UNCHANGED detectorVars
    /\ UNCHANGED cycleVars
    /\ UNCHANGED schedVars
    /\ UNCHANGED limiterVars
    /\ UNCHANGED systemVars
    /\ UNCHANGED startupVars

\* while True: cycle_start = time.time(); await _perform_monitoring_cycle()
BeginCycle ==
    /\ phase \in {"INIT", "SLEEPING"}
    /\ loop_cycles < MaxStepCycles
    /\ phase' = "RUNNING_CYCLE"
    /\ prev_phase' = phase
    /\ cy_step' = "fetch"
    /\ group_results' = <<>>
    /\ UNCHANGED <<groups_left, outstanding, loop_cycles>>
    /\ StepsFrame

\* monitoring_tasks = await self.sheets_parser.get_monitoring_tasks(); the
\* read fails, or leaves n groups of active tasks
FetchTasks(ok, n) ==
    /\ phase = "RUNNING_CYCLE"
    /\ cy_step = "fetch"
    /\ IF ok /\ n > 0
       THEN /\ groups_left' = n
            /\ cy_step' = "options"
       ELSE /\ groups_left' = 0
            /\ cy_step' = "done"
    /\ UNCHANGED <<phase, prev_phase, outstanding, loop_cycles,
                   group_results>>
    /\ StepsFrame

\* _check_task_group: a vendor call is issued
IssueCall ==
    /\ phase = "RUNNING_CYCLE"
    /\ cy_step \in {"options", "coefficients"}
    /\ outstanding' = outstanding \cup {cy_step}
    /\ cy_step' = await_call(cy_step)
    /\ UNCHANGED <<phase, prev_phase, groups_left, loop_cycles,
                   group_results>>
    /\ StepsFrame

\* the call returns or raises; a failed call and an answer without
\* warehouses end the group
CallEnds(result) ==
    /\ phase = "RUNNING_CYCLE"
    /\ \/ /\ cy_step = "options_wait"
          /\ outstanding' = outstanding \ {"options"}
          /\ cy_step' = IF result = "ok" THEN "coefficients" ELSE "group_sleep"
          /\ group_results' = IF result = "ok" THEN group_results
                               ELSE Append(group_results, result)
       \/ /\ cy_step = "coefficients_wait"
          /\ result # "no_warehouses"
          /\ outstanding' = outstanding \ {"coefficients"}
          /\ cy_step' = IF result = "ok" THEN "analyse" ELSE "group_sleep"
          /\ group_results' = IF result = "ok" THEN group_results
                               ELSE Append(group_results, result)
    /\ UNCHANGED <<phase, prev_phase, groups_left, loop_cycles>>
    /\ StepsFrame

\* the matching and the notifications of the group; when they raise the
\* loop over the groups goes on without the pause (except ...: continue)
AnalyseGroup(ok) ==
    /\ phase = "RUNNING_CYCLE"
    /\ cy_step = "analyse"
    /\ IF ok
       THEN /\ cy_step' = "group_sleep"
            /\ UNCHANGED groups_left
       ELSE /\ cy_step' = next_group(groups_left)
            /\ groups_left' = groups_left - 1
    /\ group_results' = Append(group_results,
                               IF ok THEN "analysed" ELSE "analysis_raised")
    /\ UNCHANGED <<phase, prev_phase, outstanding, loop_cycles>>
    /\ StepsFrame

\* await asyncio.sleep(1) after the group
GroupSleep ==
    /\ phase = "RUNNING_CYCLE"
    /\ cy_step = "group_sleep"
    /\ cy_step' = next_group(groups_left)
    /\ groups_left' = groups_left - 1
    /\ UNCHANGED <<phase, prev_phase, outstanding, loop_cycles,
                   group_results>>
    /\ StepsFrame

\* _perform_monitoring_cycle returns; cycle_duration is taken and
\* _calculate_dynamic_pause is called
EndCycle ==
    /\ phase = "RUNNING_CYCLE"
    /\ cy_step = "done"
    /\ phase' = "COMPUTING_PAUSE"
    /\ prev_phase' = phase
    /\ cy_step' = "idle"
    /\ loop_cycles' = loop_cycles + 1
    /\ UNCHANGED <<groups_left, outstanding, group_results>>
    /\ StepsFrame

\* the pause is returned and slept (await asyncio.sleep(pause_duration)),
\* or the computation raises and the handler sleeps 30 s
PauseComputed(failed) ==
    /\ phase = "COMPUTING_PAUSE"
    /\ phase' = "SLEEPING"
    /\ prev_phase' = phase
    /\ UNCHANGED <<cy_step, groups_left, outstanding, loop_cycles,
                   group_results>>
    /\ StepsFrame

NextSteps ==
    \/ BeginCycle
    \/ \E ok \in BOOLEAN, n \in 0..MaxGroups : FetchTasks(ok, n)
    \/ IssueCall
    \/ \E result \in {"ok", "raised", "no_warehouses"} : CallEnds(result)
    \/ \E ok \in BOOLEAN : AnalyseGroup(ok)
    \/ GroupSleep
    \/ EndCycle
    \/ \E failed \in BOOLEAN : PauseComputed(failed)

SpecSteps == InitSteps /\ [][NextSteps]_vars

(***************************************************************************)
(* The snapshot file between the two tasks of run_with_bot.py.  The        *)
(* monitoring task writes it in _save_active_slots (open "w", json.dump,   *)
(* close); the bot task reads it in get_current_active_slots when a user   *)
(* subscribes.  Both are tasks of one event loop: a task runs until it     *)
(* awaits, and neither function awaits.  Snapshots are numbered; 0 stands  *)
(* for the empty list.                                                     *)
(***************************************************************************)
\* asyncio.create_task on one loop: another task is resumed only while
\* this one is suspended at an await
suspended_threads(task_pc) == TRUE

suspended(task_pc) == task_pc = "await"

\* slot_utils.py: get_current_active_slots.  No file gives the empty list;
\* json.load of an incomplete file raises and the except branch returns
\* the empty list.
get_current_active_slots(file) ==
    IF ~file.exists THEN 0
    ELSE IF file.part = "complete" THEN file.snap
    ELSE 0

InitFile ==
    /\ DeliveryIdle
    /\ MatcherIdle
    /\ DetectorIdle
    /\ CycleIdle
    /\ SchedIdle
    /\ LimiterIdle
    /\ SystemIdle
    /\ StartupIdle
    /\ StepsIdle
    /\ disk = [exists |-> FALSE, part |-> "complete", snap |-> 0]
    /\ committed = 0
    /\ writer_pc = "await"
    /\ writing = 0
    /\ reader_pc = "await"
    /\ reads = <<>>

FileFrame ==
    /\ UNCHANGED deliveryVars
    /\ UNCHANGED matcherVars
    /\ UNCHANGED detectorVars
    /\ UNCHANGED cycleVars
    /\ UNCHANGED schedVars
    /\ UNCHANGED limiterVars
    /\ UNCHANGED systemVars
    /\ UNCHANGED startupVars
    /\ UNCHANGED stepVars

\* _save_active_slots: open(self.active_slots_file, "w") truncates the
\* file; when the open fails the exception is swallowed and the file stays
OpenForWrite(ok) ==
    /\ writer_pc = "await"
    /\ suspended(reader_pc)
    /\ writing < MaxWrites
    /\ writing' = writing + 1
    /\ IF ok
       THEN /\ disk' = [exists |-> TRUE, part |-> "empty", snap |-> writing + 1]
            /\ writer_pc' = "opened"
       ELSE UNCHANGED <<disk, writer_pc>>
    /\ UNCHANGED <<committed, reader_pc, reads>>
    /\ FileFrame

\* json.dump(slots, f, ...): the text reaches the file piece by piece
Dump ==
    /\ writer_pc = "opened"
    /\ disk' = [disk EXCEPT !.part = "partial"]
    /\ writer_pc' = "dumping"
    /\ UNCHANGED <<committed, writing, reader_pc, reads>>
    /\ FileFrame

\* leaving the with block closes the file; the task goes on to its next
\* await
Close ==
    /\ writer_pc = "dumping"
    /\ disk' = [disk EXCEPT !.part = "complete"]
    /\ committed' = writing
    /\ writer_pc' = "await"
    /\ UNCHANGED <<writing, reader_pc, reads>>
    /\ FileFrame

\* telegram_bot.py: _handle_subscribe is resumed after await message.reply
Subscribe ==
    /\ reader_pc = "await"
    /\ suspended(writer_pc)
    /\ Len(reads) < MaxReads
    /\ reader_pc' = "resumed"
    /\ UNCHANGED <<disk, committed, writer_pc, writing, reads>>
    /\ FileFrame

\* current_active_slots = get_current_active_slots(), then the handler
\* awaits send_missed_notifications
ReadFile ==
    /\ reader_pc = "resumed"
    /\ reads' = Append(reads,
                       [got |-> get_current_active_slots(disk),
                        saw |-> IF disk.exists THEN disk.part ELSE "absent",
                        previous |-> committed,
                        new |-> IF writer_pc = "await" THEN committed
                                ELSE writing])
    /\ reader_pc' = "await"
    /\ UNCHANGED <<disk, committed, writer_pc, writing>>
    /\ FileFrame

NextFile ==
    \/ \E ok \in BOOLEAN : OpenForWrite(ok)
    \/ Dump
    \/ Close
    \/ Subscribe
    \/ ReadFile

SpecFile == InitFile /\ [][NextFile]_vars

(***************************************************************************)
(* Delivery to one user by the two tasks of run_with_bot.py: the push of   *)
(* the monitoring task (send_slot_notification) and the pull of the bot    *)
(* task for a user who subscribes (_handle_subscribe,                      *)
(* send_missed_notifications).  An action is the code a task runs from one *)
(* await to the next.                                                      *)
(***************************************************************************)
\* telegram_bot.py: has_user_seen_slot
has_user_seen_slot(slot_id) == slot_id \in user_notifications

\* get_unseen_slots_for_user, in the order of the file
unseen_list(S) ==
    IF S = {} THEN <<>>
    ELSE IF "A-100-1" \in S
         THEN <<"A-100-1">> \o (IF "A-100-2" \in S THEN <<"A-100-2">> ELSE <<>>)
         ELSE <<"A-100-2">>

InitDelivery ==
    /\ MatcherIdle
    /\ DetectorIdle
    /\ CycleIdle
    /\ SchedIdle
    /\ LimiterIdle
    /\ SystemIdle
    /\ StartupIdle
    /\ StepsIdle
    /\ FileIdle
    /\ subscribed = FALSE
    /\ user_notifications = {}
    /\ delivered = [s \in SlotIds |-> 0]
    /\ file_slots = {}
    /\ push_pc = "await"
    /\ push_slot = "none"
    /\ pull_pc = "await"
    /\ unseen_slots = <<>>

DeliveryFrame ==
    /\ UNCHANGED matcherVars
    /\ UNCHANGED detectorVars
    /\ UNCHANGED cycleVars
    /\ UNCHANGED schedVars
    /\ UNCHANGED limiterVars
    /\ UNCHANGED systemVars
    /\ UNCHANGED startupVars
    /\ UNCHANGED stepVars
    /\ UNCHANGED fileVars

\* The monitor found the new slot: _notify_about_found_slots saves the
\* snapshot and calls send_slot_notification, which runs up to
\* await self.bot.send_message for the subscribed user who has not seen
\* the slot.
SendSlotNotification(slot_id) ==
    /\ push_pc = "await"
    /\ slot_id \notin file_slots
    /\ file_slots' = file_slots \cup {slot_id}
    /\ IF subscribed /\ ~has_user_seen_slot(slot_id)
       THEN /\ push_pc' = "send_message"
            /\ push_slot' = slot_id
       ELSE UNCHANGED <<push_pc, push_slot>>
    /\ UNCHANGED <<subscribed, user_notifications, delivered, pull_pc,
                   unseen_slots>>
    /\ DeliveryFrame

\* send_message returns or raises; after a delivery
\* add_user_notification records the slot
PushDelivered(ok) ==
    /\ push_pc = "send_message"
    /\ IF ok
       THEN /\ delivered' = [delivered EXCEPT ![push_slot] = @ + 1]
            /\ user_notifications' = user_notifications \cup {push_slot}
       ELSE UNCHANGED <<delivered, user_notifications>>
    /\ push_pc' = "await"
    /\ push_slot' = "none"
    /\ UNCHANGED <<subscribed, file_slots, pull_pc, unseen_slots>>
    /\ DeliveryFrame

\* _handle_subscribe: the user is stored as subscribed, then
\* await message.reply
HandleSubscribe ==
    /\ pull_pc = "await"
    /\ ~subscribed
    /\ subscribed' = TRUE
    /\ pull_pc' = "reply"
    /\ UNCHANGED <<user_notifications, delivered, file_slots, push_pc,
                   push_slot, unseen_slots>>
    /\ DeliveryFrame

\* get_current_active_slots(), then send_missed_notifications up to
\* unseen_slots
SendMissedNotifications ==
    /\ pull_pc = "reply"
    /\ unseen_slots' =
           unseen_list({s \in file_slots : ~has_user_seen_slot(s)})
    /\ pull_pc' = "loop"
    /\ UNCHANGED <<subscribed, user_notifications, delivered, file_slots,
                   push_pc, push_slot>>
    /\ DeliveryFrame

\* for slot_data in unseen_slots: the check of has_user_seen_slot, then
\* await self.bot.send_message
PullNext ==
    /\ pull_pc = "loop"
    /\ IF unseen_slots = <<>>
       THEN /\ pull_pc' = "await"
            /\ UNCHANGED unseen_slots
       ELSE IF has_user_seen_slot(Head(unseen_slots))
            THEN /\ unseen_slots' = Tail(unseen_slots)
                 /\ UNCHANGED pull_pc
            ELSE /\ pull_pc' = "send_message"
                 /\ UNCHANGED unseen_slots
    /\ UNCHANGED <<subscribed, user_notifications, delivered, file_slots,
                   push_pc, push_slot>>
    /\ DeliveryFrame

\* send_message returns or raises; after a delivery
\* add_user_notification, then await asyncio.sleep(0.1)
PullDelivered(ok) ==
    /\ pull_pc = "send_message"
    /\ IF ok
       THEN /\ delivered' = [delivered EXCEPT ![Head(unseen_slots)] = @ + 1]
            /\ user_notifications' =
                   user_notifications \cup {Head(unseen_slots)}
       ELSE UNCHANGED <<delivered, user_notifications>>
    /\ unseen_slots' = Tail(unseen_slots)
    /\ pull_pc' = "loop"
    /\ UNCHANGED <<subscribed, file_slots, push_pc, push_slot>>
    /\ DeliveryFrame

NextDelivery ==
    \/ \E slot_id \in SlotIds : SendSlotNotification(slot_id)
    \/ \E ok \in BOOLEAN : PushDelivered(ok)
    \/ HandleSubscribe
    \/ SendMissedNotifications
    \/ PullNext
    \/ \E ok \in BOOLEAN : PullDelivered(ok)

SpecDelivery == InitDelivery /\ [][NextDelivery]_vars

(***************************************************************************)
(* Properties of the matcher.                                              *)
(***************************************************************************)
Count(S) == Cardinality(S)

\* C5: every FoundSlot emitted by the Slot Matcher has a date within
\* [task.date_from, task.date_to], a warehouse that is in
\* task.allowed_warehouses (or that list is empty), and a coefficient
\* <= task.max_coefficient.
C5_EmittedWithinCriteria ==
    m_pc = "done" =>
        \A i \in DOMAIN suitable_slots :
            LET f == suitable_slots[i] IN
            /\ task.date_from <= f.date /\ f.date <= task.date_to
            /\ (task.allowed_warehouses = <<>>
                \/ f.warehouse_id \in Range(task.allowed_warehouses))
            /\ f.coefficient <= task.max_coefficient
            /\ matches_criteria(f)

\* Witness of C5: slots were emitted for a task that restricts warehouses,
\* while the vendor also offered an available slot at a warehouse the task
\* does not allow.
C5_Witness ==
    /\ m_pc = "done"
    /\ suitable_slots # <<>>
    /\ task.allowed_warehouses = <<100>>
    /\ 200 \in Range(slot.warehouses)
    /\ \E i \in DOMAIN coefficients :
           /\ coefficients[i].warehouse_id = 200
           /\ is_slot_available(coefficients[i])
           /\ coefficients[i].date >= Max2(task.date_from, today)
           /\ coefficients[i].date <= task.date_to

\* C6: is_slot_available(e) is true exactly when the coefficient is 0 or 1
\* and allow_unload is set; FoundSlot.is_really_available gives the same
\* verdict on the fields copied from the coefficient entry.
C6_AvailabilityRule ==
    /\ \A i \in DOMAIN coefficients :
           LET e == coefficients[i] IN
           is_slot_available(e)
               <=> (e.coefficient \in {0, 1} /\ e.allow_unload = TRUE)
    /\ \A i \in DOMAIN suitable_slots :
           LET f == suitable_slots[i] IN
           /\ is_really_available(f)
                  <=> (f.coefficient \in {0, 1} /\ f.allow_unload = TRUE)
           /\ \E j \in DOMAIN coefficients :
                  LET e == coefficients[j] IN
                  /\ e.warehouse_id = f.warehouse_id
                  /\ e.date = f.date
                  /\ e.box_type_name = f.box_type_name
                  /\ e.coefficient = f.coefficient
                  /\ e.allow_unload = f.allow_unload
                  /\ is_slot_available(e) = is_really_available(f)

\* Witness of C6: the vendor list holds an entry with coefficient -1 and
\* allow_unload set (not available), and a slot was emitted from another.
C6_Witness ==
    /\ m_pc = "done"
    /\ suitable_slots # <<>>
    /\ \E i \in DOMAIN coefficients :
           /\ coefficients[i].coefficient = -1
           /\ coefficients[i].allow_unload
           /\ ~is_slot_available(coefficients[i])

\* The triples (warehouse occurrence, date, box type) of the reference set.
RefTriples ==
    LET idx == coef_index(coefficients) IN
    {tr \in (DOMAIN slot.warehouses) \X Days \X {1, 2, 6} :
        LET wid == slot.warehouses[tr[1]]
            k == <<wid, tr[2], tr[3]>>
        IN /\ (task.allowed_warehouses = <<>>
               \/ wid \in Range(task.allowed_warehouses))
           /\ tr[2] >= today /\ tr[2] >= task.date_from
           /\ tr[2] <= task.date_to
           /\ k \in DOMAIN idx
           /\ idx[k].coefficient \in {0, 1}
           /\ idx[k].allow_unload
           /\ idx[k].coefficient <= task.max_coefficient}

RefRecord(tr) ==
    LET wid == slot.warehouses[tr[1]]
        e == coef_index(coefficients)[<<wid, tr[2], tr[3]>>]
    IN [barcode |-> slot.barcode, warehouse_id |-> wid,
        warehouse_name |-> e.warehouse_name, coefficient |-> e.coefficient,
        box_type_name |-> e.box_type_name, date |-> tr[2],
        allow_unload |-> e.allow_unload, found_at |-> 0,
        monitoring_task |-> task]

\* C7: the matcher's output is exactly the reference set, one FoundSlot
\* per qualifying (warehouse occurrence, date from max(date_from, today) to
\* date_to, box type in {1, 2, 6}) and nothing else; so an n-day range not
\* in the past with one qualifying box-type-1 entry per date yields n
\* records, allow_unload = false yields none, a coefficient other than 0 or
\* 1 is never emitted, and an empty warehouse list yields no record.
C7_MatcherIsReference ==
    m_pc = "done" =>
        /\ Len(suitable_slots) = Count(RefTriples)
        /\ \A r \in Range(suitable_slots) \cup {RefRecord(tr) : tr \in RefTriples} :
               Count({i \in DOMAIN suitable_slots : suitable_slots[i] = r})
                   = Count({tr \in RefTriples : RefRecord(tr) = r})
        /\ (/\ slot.warehouses = <<100>>
            /\ task.date_from >= today
            /\ Len(coefficients) = task.date_to - task.date_from + 1
            /\ \A d \in task.date_from..task.date_to :
                   \E i \in DOMAIN coefficients :
                       coefficients[i] = Coef(d, 0, 100, TRUE, 1))
               => Len(suitable_slots) = task.date_to - task.date_from + 1
        /\ (\A i \in DOMAIN coefficients : ~coefficients[i].allow_unload)
               => suitable_slots = <<>>
        /\ \A i \in DOMAIN suitable_slots :
               suitable_slots[i].coefficient \in {0, 1}
        /\ slot.warehouses = <<>> => suitable_slots = <<>>

\* Witness of C7: a task whose date_from is in the past, with a qualifying
\* entry before today (not emitted) and a qualifying entry on every day
\* from today to date_to (emitted, one record per date).
C7_Witness ==
    /\ m_pc = "done"
    /\ task.date_from < today
    /\ task.date_to >= today
    /\ slot.warehouses = <<100>>
    /\ Len(suitable_slots) = task.date_to - today + 1
    /\ \A d \in today..task.date_to :
           \E i \in DOMAIN suitable_slots : suitable_slots[i].date = d
    /\ \E i \in DOMAIN coefficients :
           /\ coefficients[i].date < today
           /\ coefficients[i].date >= task.date_from
           /\ is_slot_available(coefficients[i])
           /\ coefficients[i].warehouse_id = 100

(***************************************************************************)
(* Properties of the Change Detector.                                      *)
(***************************************************************************)
\* The identity key of a slot record: product, warehouse, date, box type,
\* coefficient.
IdentityKey(d) ==
    <<d.barcode, d.warehouse_id, d.date, d.box_type_name, d.coefficient>>

IdentityKeys(dicts) == {IdentityKey(dicts[i]) : i \in DOMAIN dicts}

WithoutFoundAt(recs) == [i \in DOMAIN recs |-> [recs[i] EXCEPT !.found_at = 0]]

C2_NotifiesExactlyNew ==
    last_changed =>
        LET new == ToDicts(last_found)
            old == IdentityKeys(prev_active)
        IN /\ Len(sent) = Count({i \in DOMAIN new : IdentityKey(new[i]) \notin old})
           /\ \A i \in DOMAIN new :
                  Count({j \in DOMAIN sent : sent[j] = new[i]})
                      = IF IdentityKey(new[i]) \in old THEN 0
                        ELSE Count({k \in DOMAIN new : new[k] = new[i]})
           /\ \A j \in DOMAIN sent : IdentityKey(sent[j]) \notin old
           /\ current_active_slots = new

\* Witness of C2: the previous snapshot is {X}, the new list is {X, Y}, one
\* notifier call was made, for Y, and the snapshot holds both X and Y.
C2_Witness ==
    /\ last_changed
    /\ Len(prev_active) = 1
    /\ Len(last_found) = 2
    /\ IdentityKey(to_dict(last_found[1])) = IdentityKey(prev_active[1])
    /\ IdentityKey(to_dict(last_found[2])) # IdentityKey(prev_active[1])
    /\ sent = <<to_dict(last_found[2])>>
    /\ IdentityKeys(current_active_slots)
           = {IdentityKey(to_dict(last_found[1])), IdentityKey(to_dict(last_found[2]))}

\* C4: a new list that equals the previous snapshot except for the found_at
\* values is treated as unchanged: _slots_changed returns false.
C4_FoundAtIgnored ==
    (/\ runs >= 1
     /\ last_found # <<>>
     /\ WithoutFoundAt(ToDicts(last_found)) = WithoutFoundAt(prev_active))
        => /\ last_changed = FALSE
           /\ ~slots_changed(prev_active, ToDicts(last_found))

\* Witness of C4: the new list and the previous snapshot hold the same
\* records with different found_at values, and no change was reported.
C4_Witness ==
    /\ runs >= 1
    /\ last_found # <<>>
    /\ WithoutFoundAt(ToDicts(last_found)) = WithoutFoundAt(prev_active)
    /\ \A i \in DOMAIN last_found : last_found[i].found_at # prev_active[i].found_at
    /\ last_changed = FALSE

(***************************************************************************)
(* Properties of the monitoring cycle.                                     *)
(***************************************************************************)
\* C3: for two consecutive monitoring cycles with identical tasks and
\* identical vendor data, for any number of products that have matching
\* slots, the second cycle makes no notifier call.
C3_SecondCycleSilent ==
    (cycles >= 2 /\ same_vendor) => sent = <<>>

(***************************************************************************)
(* Properties of the scheduler.                                            *)
(***************************************************************************)
RECURSIVE SumSeq(_)
SumSeq(q) == IF q = <<>> THEN 0 ELSE Head(q) + SumSeq(Tail(q))

\* C8: in adaptive mode, starting with no active window, for 6 consecutive
\* cycles of 2 seconds each, the sum of the six cycle durations and the
\* pauses computed after them is within a small tolerance of 60 seconds.
C8_SixCyclesFillMinute ==
    (/\ enable_adaptive_monitoring = "on"
     /\ Len(durations) = 6 /\ Len(pauses) = 6
     /\ \A i \in DOMAIN durations : durations[i] = 2000)
        => /\ SumSeq(durations) + SumSeq(pauses) >= 60000 - 1000
           /\ SumSeq(durations) + SumSeq(pauses) <= 60000 + 1000

\* C9: in adaptive mode no computed pause is negative or below the floor
\* of 0.1 s, also in the branch taken once 6 cycles were counted in the
\* window.
C9_PauseAtLeastFloor ==
    enable_adaptive_monitoring = "on" =>
        \A i \in DOMAIN pauses : pauses[i] >= 0 /\ pauses[i] >= 100

StartOf(k) ==
    SumSeq(SubSeq(durations, 1, k - 1)) + SumSeq(SubSeq(pauses, 1, k - 1))

\* The cycles that started within the 60 seconds beginning with the start
\* of cycle i.
StartsWithinMinuteOf(i) ==
    {j \in DOMAIN durations :
        StartOf(j) >= StartOf(i) /\ StartOf(j) < StartOf(i) + 60000}

\* C11: in adaptive mode, for every sequence of cycle durations, no more
\* than 6 monitoring cycles start within any interval of 60 seconds.
C11_AtMostSixStartsPerMinute ==
    enable_adaptive_monitoring = "on" =>
        \A i \in DOMAIN durations : Cardinality(StartsWithinMinuteOf(i)) <= 6

\* The calls made in category c, in order.
CallsIn(c) == SelectSeq(rl_calls, LAMBDA r : r.category = c)

\* C12: under sequential use of one rate limiter, in every category any two
\* consecutive returns of wait_if_needed are at least 1.0 s apart, and each
\* return records the time of return as that category's last-call timestamp.
C12_ReturnsSpaced ==
    /\ \A c \in {"general", "coefficients"} :
           \A i \in 1..(Len(CallsIn(c)) - 1) :
               CallsIn(c)[i + 1].returned - CallsIn(c)[i].returned >= 1000
    /\ \A i \in DOMAIN rl_calls :
           rl_calls[i].last_after[rl_calls[i].category] = rl_calls[i].returned

\* Witness of C12: a call entered less than 1.0 s after the previous return
\* in its category was held back, and a call entered later was not.
C12_Witness ==
    /\ \E i \in DOMAIN rl_calls :
           LET r == rl_calls[i] IN
           /\ r.entered - r.last_before[r.category] < 1000
           /\ r.returned > r.entered
    /\ \E i \in DOMAIN rl_calls :
           LET r == rl_calls[i] IN
           /\ i > 1
           /\ r.last_before[r.category] > 0
           /\ r.returned = r.entered

\* The other category of the two the limiter keeps.
OtherCategory(c) == IF c = "general" THEN "coefficients" ELSE "general"

\* C13: the categories of the rate limiter are independent: a call in one
\* category leaves the other category's timestamp unchanged and is held back
\* only by its own category's timestamp, never by a recent call in the other
\* category; an unknown category name is treated as general.
C13_CategoriesIndependent ==
    \A i \in DOMAIN rl_calls :
        LET r == rl_calls[i]
            o == OtherCategory(r.category)
        IN /\ r.last_after[o] = r.last_before[o]
           /\ r.entered - r.last_before[r.category] >= 1000
                  => r.returned = r.entered
           /\ r.entered - r.last_before[r.category] < 1000
                  => r.returned >= r.last_before[r.category] + 1000
           /\ r.endpoint_type \notin {"general", "coefficients"}
                  => /\ r.category = "general"
                     /\ r.last_after["general"] = r.returned
                     /\ r.last_after["coefficients"]
                            = r.last_before["coefficients"]

\* Witness of C13: a call in one category entered less than 1.0 s after a
\* return in the other category went through without delay, and a call with
\* an unknown category name was held back by the general timestamp.
C13_Witness ==
    /\ \E i \in DOMAIN rl_calls :
           LET r == rl_calls[i]
               o == OtherCategory(r.category)
           IN /\ r.last_before[o] > 0
              /\ r.entered - r.last_before[o] < 1000
              /\ r.returned = r.entered
    /\ \E i \in DOMAIN rl_calls :
           LET r == rl_calls[i] IN
           /\ r.endpoint_type = "warehouses"
           /\ r.last_before["general"] > 0
           /\ r.returned > r.entered

\* C14: three back-to-back get_acceptance_coefficients calls on one client
\* take at least 20 seconds in total (at most 6 requests per minute to the
\* coefficients endpoint, about 10 s spacing).
C14_ThreeCallsTakeTwentySeconds ==
    \A i \in DOMAIN rl_calls :
        (/\ i + 2 \in DOMAIN rl_calls
         /\ \A k \in {i, i + 1, i + 2} :
                rl_calls[k].op = "get_acceptance_coefficients"
         /\ rl_calls[i + 1].gap = 0
         /\ rl_calls[i + 2].gap = 0)
            => rl_calls[i + 2].finished - rl_calls[i].entered >= 20000

\* C15: once a task of start_system has ended by returning or by raising
\* and the supervisor has acted on it, the other task has been cancelled
\* and has ended, start_system has returned and running is cleared; after
\* start_system is over neither task is still running.
C15_SupervisorStopsBoth ==
    /\ sup_pc \in {"returned", "raised", "awaiting"}
           => /\ MonitorDone
              /\ bot_task # "running"
              /\ ~running
    /\ (sup_pc \notin {"off", "waiting"} /\ ~stop_requested)
           => sup_pc = "returned"

\* Witness of C15: the bot listener raised while the monitoring task was
\* asleep between cycles; the monitoring task was cancelled and
\* start_system returned.
C15_Witness ==
    /\ sup_pc = "returned"
    /\ bot_task = "raised"
    /\ pc = "cancelled"
    /\ cancelled_after # <<>>
    /\ cancelled_after[1].at = "sleep"
    /\ ~running

\* C16: a cancellation delivered to the monitoring task ends the loop: the
\* task is cancelled, not recovering, and no cycle is started after the
\* ones started when the cancellation arrived.
C16_CancellationEndsLoop ==
    cancelled_after # <<>>
        => /\ pc = "cancelled"
           /\ stats.checks_performed = cancelled_after[1].cycles

\* Witness of C16: the task was cancelled by stop_system during the
\* recovery sleep after an iteration that failed.
C16_Witness ==
    /\ cancelled_after # <<>>
    /\ cancelled_after[1].at = "recover"
    /\ stop_requested
    /\ pc = "cancelled"
    /\ stats.errors_count >= 1
    /\ Len(durations) >= 1

\* The iterations whose cycle failed inside _perform_monitoring_cycle.
FailedCycles == {i \in DOMAIN pauses : outcomes[i] # "ok"}

\* C17: any exception raised during task fetch, a vendor call, matching or
\* notification within a cycle increments stats.errors_count and is
\* followed by the fixed recovery pause of 30 s.
C17_CycleFailureCounted ==
    /\ \A i \in FailedCycles : pauses[i] = 30000
    /\ stats.errors_count >= Cardinality(FailedCycles)

\* C18: once running and absent cancellation, after every cycle, also one
\* that failed, another cycle is eventually started.
C18_AnotherCycleStarts ==
    \A n \in 1..(MaxLoopCycles - 1) :
        (Len(durations) = n) ~> (Len(durations) = n + 1)

\* Witness of C18: a cycle was run after an iteration that ended in the
\* recovery sleep.
C18_Witness ==
    /\ Len(durations) >= 2
    /\ pauses[1] = 30000
    /\ stats.errors_count >= 1
    /\ sup_pc = "waiting"

\* C19: the file of the active slot set is read when the monitor is
\* constructed, so that the first run after a restart, when it finds
\* exactly the slots stored in the file, makes no notifier call.
C19_RestartIsSilent ==
    [][(/\ runs = 0
        /\ active_slots_file.exists
        /\ active_slots_file.data # <<>>
        /\ Len(last_found') = Len(active_slots_file.data)
        /\ IdentityKeys(ToDicts(last_found'))
               = IdentityKeys(active_slots_file.data))
           => sent' = <<>>]_vars

\* C20: a run of the Change Detector that finds the new list unchanged with
\* respect to the snapshot makes no notifier call, does not write the file
\* of the active slot set and leaves the snapshot in memory as it was.
C20_UnchangedRunTouchesNothing ==
    [][(/\ runs' = runs + 1
        /\ last_found' # <<>>
        /\ ~last_changed')
           => /\ sent' = <<>>
              /\ active_slots_file' = active_slots_file
              /\ current_active_slots' = current_active_slots]_vars

\* Witness of C20: a run found the one slot of the snapshot again, stamped
\* with a later time; nothing was sent, and the file, which an earlier
\* failed write had left absent, is still absent.
C20_Witness ==
    /\ runs >= 2
    /\ last_changed = FALSE
    /\ Len(last_found) = 1
    /\ ToDicts(last_found) # prev_active
    /\ current_active_slots = prev_active
    /\ active_slots_file = AbsentFile
    /\ sent = <<>>

NotIn(snapshot, dicts) ==
    SelectSeq(dicts, LAMBDA d : IdentityKey(d) \notin IdentityKeys(snapshot))

ProcessedTasks ==
    UNION {Range(g) :
              g \in Range(group_tasks_for_api(active_tasks(tasks, today)))}

\* The barcodes the vendor was asked about in the last cycle, when its
\* answer lists them.
AnsweredBarcodes ==
    UNION {{last_vendor[g].slots[i].barcode : i \in DOMAIN last_vendor[g].slots} :
              g \in DOMAIN last_vendor}

\* C23: a task is processed in a monitoring cycle exactly when it is active
\* and today lies within [date_from - 30 days, date_to]; no other task
\* reaches the vendor or the matcher, so no slot is ever emitted for one.
C23_ProcessedIffActiveAndValid ==
    LET Due(t) == /\ t.is_active
                  /\ t.date_from - 30 <= today
                  /\ today <= t.date_to
    IN /\ \A i \in DOMAIN tasks : tasks[i] \in ProcessedTasks <=> Due(tasks[i])
       /\ AnsweredBarcodes \subseteq {t.barcode : t \in {u \in Range(tasks) : Due(u)}}
       /\ \A i \in DOMAIN current_active_slots : Due(current_active_slots[i].task)
       /\ \A i \in DOMAIN sent : Due(sent[i].task)
       /\ \A i \in DOMAIN audit_log : Due(audit_log[i].task)

\* Witness of C23: the sheet holds a task that is switched off and an
\* active one; a cycle asked the vendor about the active one only and
\* notified a slot for it.
C23_Witness ==
    /\ cycles >= 1
    /\ Len(tasks) = 2
    /\ ~tasks[1].is_active
    /\ AnsweredBarcodes = {tasks[2].barcode}
    /\ sent # <<>>
    /\ \A i \in DOMAIN sent : sent[i].barcode = tasks[2].barcode

\* The last cycle asked about one batch of two due products and the vendor
\* flagged product i of it with an error and answered for product j.
FlaggedInBatch(i, j) ==
    /\ cycles >= 1
    /\ Len(active_tasks(tasks, today)) = 2
    /\ Len(last_vendor) = 1
    /\ ~last_vendor[1].options_fail
    /\ ~last_vendor[1].coefs_fail
    /\ {i, j} = DOMAIN last_vendor[1].slots
    /\ i # j
    /\ last_vendor[1].slots[i].barcode # last_vendor[1].slots[j].barcode
    /\ last_vendor[1].slots[i].is_error
    /\ ~last_vendor[1].slots[j].is_error

\* C24: when the vendor flags one product of a batch with an error while
\* another one succeeds, the flagged product yields no slot in that cycle,
\* and the other product is still matched and passed to change detection:
\* its slots are the snapshot, are in the memo, and no notification is
\* about the flagged product.
C24_FlaggedProductSkipped ==
    \A i \in {1, 2}, j \in {1, 2} :
        FlaggedInBatch(i, j)
            => LET resp == last_vendor[1]
                   keys == ExpectedKeys(resp, j)
               IN /\ \A k \in DOMAIN sent :
                         sent[k].barcode # resp.slots[i].barcode
                  /\ keys # {}
                        => /\ IdentityKeys(current_active_slots) = keys
                           /\ \A key \in keys :
                                  <<key[1], key[2], key[3], key[4]>>
                                      \in notified_slots

\* Witness of C24: the vendor flagged the first product of the batch and
\* offered a slot for the second one, which was notified.
C24_Witness ==
    /\ FlaggedInBatch(1, 2)
    /\ ExpectedKeys(last_vendor[1], 2) # {}
    /\ sent # <<>>
    /\ \A k \in DOMAIN sent : sent[k].barcode = last_vendor[1].slots[2].barcode

\* C25: a missing required credential or URL is fatal at start-up: from
\* every entry point the program stops before the loop runs its first
\* cycle; and a loop that has run a cycle is not left.
C25_MissingConfigIsFatal ==
    /\ ~validate(config) => boot_cycles = 0
    /\ boot_cycles > 0 => boot_pc = "loop"

\* The identity keys of all slots passed to the Change Detector in its
\* first two runs.
PassedKeys ==
    IdentityKeys(ToDicts(prev_found)) \cup IdentityKeys(ToDicts(last_found))

\* C26: after any sequence of Change Detector runs (here: up to two),
\* stats.slots_found equals the number of distinct identity keys (product,
\* warehouse, date, box type, coefficient) ever passed in, and the audit
\* log holds exactly one record per such key.
C26_CountedPerIdentityKey ==
    runs <= 2
        => /\ stats.slots_found = Cardinality(PassedKeys)
           /\ Len(audit_log) = Cardinality(PassedKeys)

\* C27: a slot that is in the snapshot, is not found in a later cycle and
\* is found again in a still later cycle counts as new: the notifier is
\* invoked for it in the cycle in which it reappears.
C27_ReappearedIsNotified ==
    \A key \in reappeared :
        \E i \in DOMAIN sent : IdentityKey(sent[i]) = key

\* C28: after a cycle in which a previously active slot is no longer
\* found, that slot is absent from the in-memory and the persisted
\* snapshot.
C28_VanishedLeavesSnapshot ==
    \A key \in vanished :
        /\ key \notin IdentityKeys(current_active_slots)
        /\ key \notin IdentityKeys(active_slots_file.data)

\* C29: at the end of a cycle in which several products each yielded
\* matching slots, the in-memory and the persisted snapshot contain the
\* found slots of all of those products.
C29_SnapshotHoldsAllProducts ==
    (/\ cycles >= 1
     /\ CleanAnswers(last_vendor)
     /\ Cardinality({key[1] : key \in FoundKeys(last_vendor)}) >= 2)
        => /\ FoundKeys(last_vendor) \subseteq
                  IdentityKeys(current_active_slots)
           /\ FoundKeys(last_vendor) \subseteq
                  IdentityKeys(active_slots_file.data)

\* C30: a run of the Change Detector whose found slots have the same
\* identity-key set as the snapshot it started with reports no change and
\* leaves the snapshot as it was, also when the two lists differ in length
\* by duplicate records with the same key.
C30_EqualKeySetsNoChange ==
    (/\ runs >= 1
     /\ last_found # <<>>
     /\ IdentityKeys(ToDicts(last_found)) = IdentityKeys(prev_active))
        => /\ ~last_changed
           /\ current_active_slots = prev_active
           /\ sent = <<>>

\* The window state the reference gives at time t: a new window when none
\* is active or more than 60 s have elapsed since it started, one more
\* counted cycle otherwise.
RefWindow(t, start, counted) ==
    IF start = NoWindow \/ t - start > 60000
    THEN [start |-> t, cycles |-> 1]
    ELSE [start |-> start, cycles |-> counted + 1]

\* The pause the reference gives for a fast cycle in window state W.
RefPause(t, W) ==
    IF W.cycles >= 6
    THEN 60000 - (t - W.start)
    ELSE Max2(100, (60000 - (t - W.start)) \div (6 - W.cycles))

\* C31: in adaptive mode, for a cycle shorter than 10 s, the pause function
\* leaves the window state and returns the pause that the reference gives.
C31_PauseMatchesReference ==
    [][(/\ pc = "pause"
        /\ enable_adaptive_monitoring = "on"
        /\ cycle_duration < 10000)
           => LET W == RefWindow(now, current_minute_start,
                                 cycles_in_current_minute)
              IN /\ current_minute_start' = W.start
                 /\ cycles_in_current_minute' = W.cycles
                 /\ pause_duration' = RefPause(now, W)]_vars

\* C32: with adaptive mode disabled, the pause after every cycle is the
\* fixed configured interval (check_interval_seconds, 120 s) whatever the
\* cycle took, and the window start and the cycles counted in the window
\* stay as they were constructed.
C32_FixedPauseWhenDisabled ==
    enable_adaptive_monitoring = "off"
        => /\ \A i \in DOMAIN pauses : pauses[i] = 120000
           /\ pc = "sleep" => pause_duration = 120000
           /\ current_minute_start = NoWindow
           /\ cycles_in_current_minute = 0

\* Witness of C32: with adaptive mode disabled the loop is about to sleep
\* after a slow cycle that followed a fast one.
C32_Witness ==
    /\ enable_adaptive_monitoring = "off"
    /\ pc = "sleep"
    /\ Len(pauses) >= 2
    /\ \E i \in DOMAIN durations : durations[i] = 2000
    /\ cycle_duration = 15000

\* C33: a slow cycle (10 s or more) does not count toward the
\* even-spacing budget: computing the pause for a slow cycle inside an
\* active window leaves the number of cycles counted in the window
\* unchanged.
C33_SlowCycleNotCounted ==
    [][(/\ pc = "pause"
        /\ enable_adaptive_monitoring = "on"
        /\ cycle_duration >= 10000
        /\ current_minute_start # NoWindow
        /\ now - current_minute_start < 60000)
           => /\ cycles_in_current_minute' = cycles_in_current_minute
              /\ current_minute_start' = current_minute_start]_vars

\* C34: the fixed recovery pause slept after a failed iteration is shorter
\* than every pause the adaptive pause function returns for a normal cycle
\* (a fast one, counted in a window whose quota of 6 is not used up).
C34_RecoveryPauseShorter ==
    [][(/\ pc = "pause"
        /\ enable_adaptive_monitoring = "on"
        /\ cycle_duration < 10000
        /\ cycles_in_current_minute' < 6)
           => RecoveryPauseMs < pause_duration']_vars

\* C35: the loop goes through RUNNING_CYCLE, COMPUTING_PAUSE and SLEEPING
\* in that order and never overlaps work: the pause is computed and slept
\* only when the cycle is over and no vendor call is outstanding, and
\* within a cycle at most one vendor call is outstanding at any time.
C35_PhasesInOrderNoOverlap ==
    /\ <<prev_phase, phase>> \in
           {<<"INIT", "INIT">>, <<"INIT", "RUNNING_CYCLE">>,
            <<"RUNNING_CYCLE", "COMPUTING_PAUSE">>,
            <<"COMPUTING_PAUSE", "SLEEPING">>,
            <<"SLEEPING", "RUNNING_CYCLE">>}
    /\ phase # "RUNNING_CYCLE" => cy_step = "idle" /\ outstanding = {}
    /\ Cardinality(outstanding) <= 1

\* Witness of C35: in the second cycle of the loop, with another group
\* still to check, the coefficients call is outstanding, after the options
\* call of the group has returned.
C35_Witness ==
    /\ phase = "RUNNING_CYCLE"
    /\ prev_phase = "SLEEPING"
    /\ loop_cycles = 1
    /\ groups_left = 2
    /\ cy_step = "coefficients_wait"
    /\ outstanding = {"coefficients"}

\* C36: when the notifier raises for one slot of a run, the exception is
\* counted in stats.errors_count, and the notifier is still invoked for
\* every new slot of the run.
C36_NotifierFailureCounted ==
    [][raised' # {}
          => /\ stats'.errors_count = stats.errors_count + 1
             /\ \A key \in IdentityKeys(ToDicts(last_found')) \
                               IdentityKeys(current_active_slots) :
                    \E i \in DOMAIN sent' : IdentityKey(sent'[i]) = key]_vars

\* C37: an iteration of the loop whose monitoring cycle completed without
\* raising leaves errors_count unchanged and goes on to sleep the pause of
\* the pause function, never the 30-second recovery pause.
C37_CleanIterationNoRecovery ==
    [][pc = "pause"
          => /\ stats'.errors_count = stats.errors_count
             /\ pc' # "recover"]_vars

C39_AtMostOneMessagePerSlot ==
    \A slot_id \in SlotIds : delivered[slot_id] <= 1

\* C40: every active task of a group whose product the vendor returns
\* without an error flag is evaluated with its own constraints in that
\* cycle, also when two tasks of the group share a barcode: every slot the
\* answer holds for the product that the row of the task accepts has been
\* found, so its key is in the memo of the statistics.
C40_EveryTaskEvaluated ==
    cycles >= 1 =>
        \A g \in DOMAIN last_vendor :
            LET resp == last_vendor[g]
                group == group_tasks_for_api(active_tasks(tasks, today))[g]
            IN (~resp.options_fail /\ ~resp.coefs_fail)
                   => \A i \in DOMAIN resp.slots : \A k \in DOMAIN group :
                          group[k].barcode = resp.slots[i].barcode
                              => \A key \in TaskKeys(resp, i, group[k]) :
                                     <<key[1], key[2], key[3], key[4]>>
                                         \in notified_slots

====
